---- MODULE Spec2Model ----
(***************************************************************************)
(* Model of the WFTNP transport of custom_components/wahoo_wftnp/wftnp.py  *)
(* (class WFTNPClient): the sequence counter, the pending table of         *)
(* request futures, the receive loop task, connect() and close(), the      *)
(* notification callback and the control-point mailbox.                    *)
(*                                                                         *)
(* The client runs on one asyncio event loop: every action below is the    *)
(* code between two suspension points (await) of one coroutine.            *)
(*                                                                         *)
(* Two specifications share the actions and differ in what the             *)
(* environment does:                                                       *)
(*   Spec        requests, responses, cancellation, close and reconnect,   *)
(*               death of the receive loop, wrap of the sequence counter;  *)
(*   NotifySpec  the notification callback, the cached control-point UUID  *)
(*               and the mailbox, next to requests and responses.          *)
(***************************************************************************)
EXTENDS Integers, Sequences, FiniteSets, TLC

\* ------------------------------------------------------------------ bounds
\* Number of explicit _request() calls explored (each uses one slot, in order).
MaxReq == 2
\* Number of notifications delivered (callback runs, mailbox entries) in one behaviour.
MaxFrames == 2
\* Number of successful connect() calls in one behaviour.
MaxConn == 2
\* Number of RoundTrips macro steps in one behaviour.
MaxJumps == 1

\* Seconds of the clock explored.
MaxTime == 4
MaxClock == 4
MaxPerTick == 2
MaxTrioClock == 12
MaxArrivals == 3
\* Bytes of an Indoor Bike Data value after its flags word: up to all seven
\* fields (2 + 2 + 2 + 2 + 3 + 2 + 2).
MaxIbdBody == 15
\* Number of _request calls whose written bytes are followed.
MaxWrites == 3
\* How far around each of its anchor values a set_grade argument is taken, in
\* quarters of a raw unit.
MaxSpread == 6

\* ------------------------------------------------------- program constants
WFTNP_VERSION == 1
\* self._seq = (self._seq + 1) & 0xFF
SeqMask == 255
SeqMod == SeqMask + 1
\* if mtype == 6: notification
NotificationType == 6
\* if len(data) >= 16
UuidLen == 16
\* _await_cp_result(expected_req_opcode, timeout: float = 2.0)
CP_TIMEOUT == 2
\* pkt[0] == 0x80: a control-point indication
CpIndication == 128
\* if result != 0x01: SUCCESS
CpSuccess == 1
\* 0x05: "CONTROL_NOT_PERMITTED"
CpNotPermitted == 5
\* request_control writes b"\x00", set_erg_watts writes 0x05 + watts
OpRequestControl == 0
OpSetTargetPower == 5
\* stop_training writes b"\x08"
OpStopTraining == 8
\* 0x02: "OP_CODE_NOT_SUPPORTED"
CpNotSupported == 2

\* ------------------------------------------------------------ value sets
RequestTypes == 1..5
\* The request types the callers issue here: discover_services (the liveness
\* probe) and enable_notifications in Spec, discover_characteristics in NotifySpec.
IssuedTypes == {1, 5}
\* A version the client does not support.
BadVersion == WFTNP_VERSION + 1
\* if resp_code != 0: raise WFTNPError -- 0 is success, RespErr stands for the rest.
RespOk == 0
RespErr == RespOk + 1

NoUuid == "none"
FTMS_CONTROL_POINT_UUID == "2AD9"
INDOOR_BIKE_DATA_UUID == "2AD2"
Uuids == {FTMS_CONTROL_POINT_UUID, INDOOR_BIKE_DATA_UUID}
Values == {"v1", "v2"}

\* A payload (the data bytes of a frame), by what the code reads of it:
\* len   - len(data), here 0 or UuidLen + 1
\* head  - data[:16] read as a UUID (meaningful when len >= 16)
\* tail  - data[16:]
EmptyPayload == [len |-> 0, head |-> NoUuid, tail |-> "v1"]
LongPayload(u, v) == [len |-> UuidLen + 1, head |-> u, tail |-> v]
Payloads == {EmptyPayload} \cup {LongPayload(u, v) : u \in Uuids, v \in Values}
OnePayload == LongPayload(FTMS_CONTROL_POINT_UUID, "v1")

\* asyncio.Future of _request: state and, once set, the (resp_code, data) result.
NoFuture == [st |-> "none", resp |-> 0, data |-> EmptyPayload]
WaitingFuture == [st |-> "waiting", resp |-> 0, data |-> EmptyPayload]
CancelledFuture == [st |-> "cancelled", resp |-> 0, data |-> EmptyPayload]
ResultFuture(resp, data) == [st |-> "result", resp |-> resp, data |-> data]

\* A call of _request: where its coroutine is ("idle": not called yet, "awaiting":
\* at `await fut`, "done"), its type and sequence while it runs, and how it ended:
\* "ok" (returned (resp_code, data); data is kept in ret) or the exception raised.
IdleRequest == [pc |-> "idle", mtype |-> 0, seq |-> 0, out |-> "none", ret |-> EmptyPayload]
AwaitingRequest(t, s) == [pc |-> "awaiting", mtype |-> t, seq |-> s, out |-> "none",
                          ret |-> EmptyPayload]
DoneRequest(out, ret) == [pc |-> "done", mtype |-> 0, seq |-> 0, out |-> out, ret |-> ret]

Slots == 1..MaxReq

\* A call of _await_cp_result: where it is ("idle": not called, "waiting": at
\* `await asyncio.wait_for(self._cp_queue.get(), timeout)`, "done"), the opcode
\* it expects, how it ended ("ok", "FTMSControlPointError" with the result code,
\* "TimeoutError"), when it was called and when the current wait_for began.
\* A call of ftms_init(subscribe_indoor_bike_data, subscribe_status): where it is
\* ("idle", awaiting the answer to "discover_services",
\* "discover_characteristics", "enable_cp", "enable_ibd", "enable_status", or
\* "done"), its two flags, whether the characteristics discovered hold Indoor
\* Bike Data and Status, and how it ended ("ok" or the reason of its WFTNPError).
IdleInit == [pc |-> "idle", sub |-> FALSE, st |-> FALSE, hasIbd |-> FALSE, hasSt |-> FALSE,
             out |-> "none"]

\* The polling task: async_setup first (mode "setup": no lock, errors logged),
\* then the first refresh (mode "first"), then one _async_update_data after the
\* other (mode "tick"); the same record follows a manual connect from the
\* connection switch (mode "manual", until the next tick starts).
\*   pc: "new", "idle", "lock" (waiting for the lock), "probe" (awaiting
\*       wait_for(discover_services(), 3.0)), "connecting" (awaiting connect()),
\*       "initialising" (awaiting ftms_init())
\*   out: how the last run ended: "ok", "UpdateFailed", "setup_failed", or
\*       "raised" (another exception left _async_update_data)
\*   failed, attempts: history of the current run: its probe failed; the number
\*       of _connect_and_init calls it made
\*   wasManual: history: _manual_disconnect when the run entered the lock
NewPoll == [pc |-> "new", mode |-> "setup", out |-> "none", failed |-> FALSE, attempts |-> 0,
            wasManual |-> FALSE]

\* A facade command: pc "idle", "lock", "rc" (awaiting request_control()), "st"
\* (awaiting start_training()), "op" (awaiting the command's own FTMS operation),
\* "done"; kind: the command; out: "ok" or the exception it raised.
IdleCommand == [pc |-> "idle", kind |-> "none", out |-> "none"]

\* The tasks that call _request at the same time.
Writers == {"w1", "w2"}

\* Nothing written yet. out: the bytes given to self._writer.write, in order;
\* pc: each caller's _request: "idle", "drain" (awaiting drain()), "await"
\* (awaiting its future), "done", "cancelled"; sq: self._seq; asked: history:
\* the (type, payload) of the calls, in the order they were made.
NoWire == [out |-> <<>>, pc |-> [w \in Writers |-> "idle"], sq |-> 0, asked |-> <<>>]

\* No notification yet. ready: the on_notify tasks created with
\* asyncio.create_task and not yet run, in the event loop's queue, each with the
\* packet it carries; received, ingested: history: the packets in the order the
\* receive loop got their frames, and in the order the coordinator handled them.
NoSpawn == [ready |-> <<>>, received |-> <<>>, ingested |-> <<>>]

\* No codec function has been called.
NoCodec == [fn |-> "none", input |-> <<>>, output |-> <<>>]

\* The tasks that run facade commands: service calls may overlap.
Commands == {"c1", "c2"}

\* The options of the config entry, in ticks of the model's clock.
\* (sleep_timeout, last_seen_interval, update_throttle); 0 switches off.
DefaultOptions == [sleep_timeout |-> 2, last_seen_interval |-> 3, update_throttle |-> 0]
Options ==
    [sleep_timeout : {0, 2}, last_seen_interval : {1, 3}, update_throttle : {0, 2}]

\* The metrics of the snapshot that count as activity.
Metrics == {"speed_kmh", "cadence_rpm", "power_w"}

\* The telemetry state after __init__ at monotonic time t0 with options o
\* (coordinator.py:72-85): now is time.monotonic(); data is the published
\* snapshot (self.data) and last_seen the time of its "last_seen" entry (-1:
\* none). History of the last packet handled: published ("none", "active" or
\* "last_seen"); seen_at, the time of the latest bare last_seen publish (-1:
\* none); handled, the number of packets handled at this clock value;
\* active_at, the time of the latest active publish (-1: none); gap, the time
\* between the two latest active publishes (-1: fewer than two); arrivals, the
\* arrival times of the packets of a recorded scenario.
NewTelemetry(t0, o) ==
    [now |-> t0,
     sleep_timeout |-> o.sleep_timeout,
     last_seen_interval |-> o.last_seen_interval,
     update_throttle |-> o.update_throttle,
     last_activity_monotonic |-> t0,
     last_publish_monotonic |-> 0,
     last_seen_publish_monotonic |-> 0,
     data |-> <<>>,
     last_seen |-> -1,
     published |-> "none",
     seen_at |-> -1,
     handled |-> 0,
     active_at |-> -1,
     gap |-> -1,
     arrivals |-> <<>>]

\* skipped: the loop has thrown an entry away and gone round.
IdleWait == [pc |-> "idle", op |-> 0, out |-> "none", code |-> 0, began |-> 0, armed |-> 0,
             skipped |-> FALSE]
WaitingFor(op, t) == [pc |-> "waiting", op |-> op, out |-> "none", code |-> 0, began |-> t,
                      armed |-> t, skipped |-> FALSE]
DoneWait(op, out, code, skipped) ==
    [pc |-> "done", op |-> op, out |-> out, code |-> code, began |-> 0, armed |-> 0,
     skipped |-> skipped]

VARIABLES
    seq,        \* self._seq
    pending,    \* self._pending: (mtype, seq) -> slot of the future stored there
    fut,        \* slot -> the future created by that _request call
    req,        \* slot -> the _request call (its coroutine)
    nreq,       \* number of _request calls started
    rxTask,     \* self._rx_task: "none", "running", "cancelled", or how it failed
    reader,     \* self._reader: "none" / "open"
    writer,     \* self._writer: "none" / "open" / "closing"
    connId,     \* number of connections opened so far (the current one's id)
    notifyCb,   \* self._notify_cb: "none" / "sync" / "async"
    cpUuid,     \* self.ftms_control_point_uuid
    cpQueue,    \* self._cp_queue
    cbCount,    \* history: number of invocations of the notification callback
    cbLast,     \* history: the (uuid, value) of its last invocation
    closer,     \* the coroutine running close(): "idle" / "await_rx" / "await_wr"
    jumps,      \* number of RoundTrips macro steps taken
    cpWait,     \* the call of _await_cp_result (its coroutine)
    now,        \* time.monotonic(), in seconds
    ini,        \* the call of ftms_init (its coroutine)
    issued,     \* history: the requests that call of ftms_init has issued, in order
    lock,       \* coordinator._lock: who holds it ("none", "tick", or a command)
    connected,  \* coordinator._connected
    hasControl, \* coordinator._has_control: "unset" (no such attribute yet), "false", "true"
    poll,       \* the task running async_setup, then the periodic _async_update_data
    cm,         \* the tasks running facade commands
    acquiredOn, \* history: the connection on which start_training last succeeded
    tele,       \* the coordinator's telemetry state, its options and the clock
    manual,     \* coordinator._manual_disconnect (is_manually_disconnected)
    codec,      \* a call of a pure codec function: its input and its result
    shut,       \* async_shutdown: "no", "done" (it returned) or "raised"
    wire,       \* the bytes handed to the StreamWriter and the _request calls that wrote them
    spawn       \* the on_notify tasks created by the receive loop and not yet run, with history

vars == <<seq, pending, fut, req, nreq, rxTask, reader, writer, connId,
          notifyCb, cpUuid, cpQueue, cbCount, cbLast, closer, jumps, cpWait, now,
          ini, issued, lock, connected, hasControl, poll, cm, acquiredOn, tele,
          manual, codec, shut, wire, spawn>>

reqVars == <<fut, req, nreq>>
connVars == <<rxTask, reader, writer, connId>>
notifVars == <<notifyCb, cpUuid, cpQueue, cbCount, cbLast>>
cpVars == <<cpWait, now>>
ftmsVars == <<ini, issued>>
\* What lives above the transport.
sessVars == <<lock, connected, hasControl, poll, cm, acquiredOn>>
upperVars == <<cpVars, ftmsVars, sessVars, tele, manual, codec, shut, wire, spawn>>
\* What an action of one layer leaves alone in the other upper layers.
notCp == <<ftmsVars, sessVars, tele, manual, codec, shut, wire, spawn>>
notFtms == <<cpVars, sessVars, tele, manual, codec, shut, wire, spawn>>
notSess == <<cpVars, ftmsVars, tele, codec, shut, wire, spawn>>
notTele == <<cpVars, ftmsVars, sessVars, manual, codec, shut, wire, spawn>>
notShut == <<cpVars, ftmsVars, tele, manual, codec, wire, spawn>>

\* ------------------------------------------------------------- helpers

\* The receive loop task finished with an exception.
RxFailedStates == {"failed_eof", "failed_io", "failed_version", "failed_callback"}
RxDead == rxTask \in RxFailedStates

\* dict.pop(key, None): the table without key.
PendingPop(p, key) == [k \in (DOMAIN p) \ {key} |-> p[k]]

\* self._pending[key] = fut
PendingPut(p, key, r) == [k \in (DOMAIN p) \cup {key} |-> IF k = key THEN r ELSE p[k]]

\* def _next_seq
NextSeq(s) == (s + 1) % SeqMod

\* A lookup by the sequence byte alone (not what the code does).
LookupKeyIgnoringType(mtype, s) == <<1, s>>

\* The key under which _rx_loop looks a frame up: (mtype, seq).
LookupKey(mtype, s) == <<mtype, s>>

\* A notification taken for the answer to the subscribe request whose sequence
\* byte it echoes (not what the code does).
PendingAfterSubscribeEcho(p, s) == PendingPop(p, <<5, s>>)

\* The mtype == 6 branch ends in `continue`: it never reaches the table.
PendingAfterNotification(p, s) == p

\* if mtype == 6: ... continue   -- every other type is looked up as a response.
IsNotification(mtype) == mtype = NotificationType

\* A mailbox that takes every notification (not what the code does).
MailboxAcceptsAny(cached, u) == TRUE

\* if self.ftms_control_point_uuid and char_uuid == self.ftms_control_point_uuid
MailboxAccepts(cached, u) == cached # NoUuid /\ u = cached

\* if self._notify_cb: out = self._notify_cb(char_uuid, value)
CallbackCalled(cb) == cb # "none"

\* out = self._notify_cb(...) is not inside any try: an exception raised by a
\* synchronous callback leaves _rx_loop. A coroutine function raises nothing
\* when called; its body runs in the task create_task(out) makes.
CallbackEndsLoop(cb, raises) == cb = "sync" /\ raises

\* connect() assigns _reader, _writer and _rx_task only.
SeqAfterConnect(s) == s
PendingAfterConnect(p) == p

\* close() assigns _rx_task, _reader and _writer only.
PendingAfterClose(p) == p

\* `await fut` raising CancelledError leaves _request; nothing removes the entry.
PendingAfterCancel(p, r) == p

\* A future lives as long as something refers to it: the table, or the coroutine
\* awaiting it. One nothing refers to is gone (its slot reads NoFuture).
Referenced(p, q, r) == q[r].pc = "awaiting" \/ \E k \in DOMAIN p : p[k] = r
Collect(p, q, f) == [r \in Slots |-> IF Referenced(p, q, r) THEN f[r] ELSE NoFuture]

\* ------------------------------------------------------------- Init

\* WFTNPClient.__init__
Init ==
    /\ seq = 0
    /\ pending = <<>>
    /\ fut = [r \in Slots |-> NoFuture]
    /\ req = [r \in Slots |-> IdleRequest]
    /\ nreq = 0
    /\ rxTask = "none"
    /\ reader = "none"
    /\ writer = "none"
    /\ connId = 0
    /\ notifyCb = "none"
    /\ cpUuid = NoUuid
    /\ cpQueue = <<>>
    /\ cbCount = 0
    /\ cbLast = <<NoUuid, "v1">>
    /\ closer = "idle"
    /\ jumps = 0
    /\ cpWait = IdleWait
    /\ now = 0
    /\ ini = IdleInit
    /\ issued = <<>>
    /\ lock = "none"
    /\ connected = FALSE
    /\ hasControl = "unset"
    /\ poll = NewPoll
    /\ cm = [c \in Commands |-> IdleCommand]
    /\ acquiredOn = 0
    /\ tele = NewTelemetry(0, DefaultOptions)
    /\ manual = FALSE
    /\ shut = "no"
    /\ wire = NoWire
    /\ spawn = NoSpawn
    /\ codec = NoCodec

\* ------------------------------------------------------------- connect

\* WFTNPClient.connect, after open_connection returned. The coordinator calls it
\* when the receive loop is not running (never started, closed, or dead).
Connect ==
    /\ closer = "idle"
    /\ rxTask # "running"
    /\ connId < MaxConn
    /\ reader' = "open"
    /\ writer' = "open"
    /\ rxTask' = "running"
    /\ connId' = connId + 1
    /\ seq' = SeqAfterConnect(seq)
    /\ pending' = PendingAfterConnect(pending)
    /\ fut' = Collect(pending', req, fut)
    /\ UNCHANGED <<req, nreq, notifVars, closer, jumps>>
    /\ UNCHANGED upperVars

\* ------------------------------------------------------------- close

\* close() up to its first suspension point.
\*   rx task running: cancel it and await it;
\*   rx task already finished with an exception: `await self._rx_task` raises
\*     that exception (only CancelledError is caught) and close() ends there;
\*   no rx task: go on to the writer (close it and await wait_closed), or, with
\*     no writer either, clear both and return.
CloseBegin ==
    /\ closer = "idle"
    /\ IF rxTask = "running"
       THEN /\ rxTask' = "cancelled"
            /\ closer' = "await_rx"
            /\ UNCHANGED <<reader, writer>>
       ELSE IF RxDead
       THEN UNCHANGED <<rxTask, reader, writer, closer>>
       ELSE IF writer # "none"
       THEN /\ writer' = "closing"
            /\ closer' = "await_wr"
            /\ UNCHANGED <<rxTask, reader>>
       ELSE /\ reader' = "none"
            /\ UNCHANGED <<rxTask, writer, closer>>
    /\ pending' = PendingAfterClose(pending)
    /\ fut' = Collect(pending', req, fut)
    /\ UNCHANGED <<seq, req, nreq, connId, notifVars, jumps>>
    /\ UNCHANGED upperVars

\* The cancelled rx task has finished: _rx_task = None, then the writer.
CloseRxDone ==
    /\ closer = "await_rx"
    /\ rxTask' = "none"
    /\ IF writer # "none"
       THEN /\ writer' = "closing"
            /\ closer' = "await_wr"
            /\ UNCHANGED reader
       ELSE /\ reader' = "none"
            /\ closer' = "idle"
            /\ UNCHANGED writer
    /\ pending' = PendingAfterClose(pending)
    /\ fut' = Collect(pending', req, fut)
    /\ UNCHANGED <<seq, req, nreq, connId, notifVars, jumps>>
    /\ UNCHANGED upperVars

\* wait_closed() returned: _reader = None, _writer = None.
CloseEnd ==
    /\ closer = "await_wr"
    /\ reader' = "none"
    /\ writer' = "none"
    /\ closer' = "idle"
    /\ pending' = PendingAfterClose(pending)
    /\ fut' = Collect(pending', req, fut)
    /\ UNCHANGED <<seq, req, nreq, rxTask, connId, notifVars, jumps>>
    /\ UNCHANGED upperVars

\* ------------------------------------------------ set_notification_callback

\* The owner installs its callback once, before connecting (async_setup).
SetNotificationCallback(cb) ==
    /\ notifyCb = "none"
    /\ connId = 0
    /\ notifyCb' = cb
    /\ UNCHANGED <<seq, pending, reqVars, connVars, cpUuid, cpQueue, cbCount, cbLast,
                   closer, jumps>>
    /\ UNCHANGED upperVars

\* ------------------------------------------------------------- _request

\* The request record of a _request(t) called now: with no writer the assert
\* fails; drain() raises ConnectionResetError when the transport is closing or
\* the reader holds an I/O exception; otherwise the call reaches `await fut`.
Issued(t) ==
    IF writer = "none" THEN DoneRequest("AssertionError", EmptyPayload)
    ELSE IF writer = "closing" \/ rxTask = "failed_io"
    THEN DoneRequest("ConnectionResetError", EmptyPayload)
    ELSE AwaitingRequest(t, NextSeq(seq))

\* _request up to `await fut` (or to the exception raised before it).
\*   writer None: the assert fails before anything changes;
\*   otherwise the sequence is taken, the future stored under (mtype, seq) and
\*   the frame written; when drain() raises, the entry stays in the table.
Request(t) ==
    /\ nreq < MaxReq
    /\ LET r == nreq + 1
       IN  /\ nreq' = r
           /\ req' = [req EXCEPT ![r] = Issued(t)]
           /\ IF writer = "none"
              THEN UNCHANGED <<seq, pending, fut>>
              ELSE /\ seq' = NextSeq(seq)
                   /\ pending' = PendingPut(pending, <<t, seq'>>, r)
                   /\ fut' = Collect(pending', req', [fut EXCEPT ![r] = WaitingFuture])
    /\ UNCHANGED <<connVars, notifVars, closer, jumps>>
    /\ UNCHANGED upperVars

\* How an awaiting _request ends once its future holds (resp, data).
Outcome(f) ==
    IF f.resp # RespOk THEN DoneRequest("WFTNPError", EmptyPayload)
    ELSE DoneRequest("ok", f.data)

\* The awaiting _request resumes with the future's result.
ReqReturn(r) ==
    /\ req[r].pc = "awaiting"
    /\ fut[r].st = "result"
    /\ req' = [req EXCEPT ![r] = Outcome(fut[r])]
    /\ fut' = Collect(pending, req', fut)
    /\ UNCHANGED <<seq, pending, nreq, connVars, notifVars, closer, jumps>>
    /\ UNCHANGED upperVars

\* ftms_init from the return of discover_characteristics (type 2, code 0; a
\* payload of 16 bytes or more stands for a list that names the control point)
\* to its next await: it caches the control-point UUID and calls
\* enable_notifications (type 5) on it.
FtmsInitCaches(r) ==
    /\ req[r].pc = "awaiting"
    /\ req[r].mtype = 2
    /\ fut[r].st = "result"
    /\ fut[r].resp = RespOk
    /\ fut[r].data.len >= UuidLen
    /\ nreq < MaxReq
    /\ cpUuid' = FTMS_CONTROL_POINT_UUID
    /\ nreq' = nreq + 1
    /\ req' = [req EXCEPT ![r] = Outcome(fut[r]), ![nreq + 1] = Issued(5)]
    /\ IF writer = "none"
       THEN /\ fut' = Collect(pending, req', fut)
            /\ UNCHANGED <<seq, pending>>
       ELSE /\ seq' = NextSeq(seq)
            /\ pending' = PendingPut(pending, <<5, seq'>>, nreq + 1)
            /\ fut' = Collect(pending', req', [fut EXCEPT ![nreq + 1] = WaitingFuture])
    /\ UNCHANGED <<connVars, notifyCb, cpQueue, cbCount, cbLast, closer, jumps>>
    /\ UNCHANGED upperVars

\* The caller of an awaiting _request is cancelled (asyncio.wait_for timed out, or
\* the calling task was cancelled): CancelledError is raised at `await fut`, which
\* cancels the future if it is not done yet. _request has no handler for it.
ReqCancel(r) ==
    /\ req[r].pc = "awaiting"
    /\ req' = [req EXCEPT ![r] = DoneRequest("CancelledError", EmptyPayload)]
    /\ pending' = PendingAfterCancel(pending, r)
    /\ fut' = Collect(pending', req',
                      [fut EXCEPT ![r] = IF @.st = "waiting" THEN CancelledFuture ELSE @])
    /\ UNCHANGED <<seq, nreq, connVars, notifVars, closer, jumps>>
    /\ UNCHANGED upperVars

\* ------------------------------------------------------------- _rx_loop

\* Another request type with the same sequence byte.
OtherType(t) == (t % 5) + 1

\* The (mtype, seq) worth sending in a response: the keys of the table, the same
\* sequence bytes under another type, and a sequence not issued yet.
FrameKeys ==
    DOMAIN pending
    \cup {<<OtherType(k[1]), k[2]>> : k \in DOMAIN pending}
    \cup {<<1, NextSeq(seq)>>}

\* Responses: any of those keys, with code 0 and data or with another code.
ResponseFrames ==
    {[ver |-> WFTNP_VERSION, mtype |-> k[1], seq |-> k[2], resp |-> c[1], data |-> c[2]] :
        k \in FrameKeys,
        c \in {<<RespOk, OnePayload>>, <<RespErr, EmptyPayload>>}}

\* Notifications: any of those sequence bytes, any of the payloads ps.
NotificationFrames(ps) ==
    {[ver |-> WFTNP_VERSION, mtype |-> NotificationType, seq |-> k[2], resp |-> RespOk,
      data |-> d] : k \in FrameKeys, d \in ps}

\* Frames of an unsupported version: a response to the latest request and a
\* notification (the version is looked at before anything else of the frame).
BadVersionFrames ==
    {[ver |-> BadVersion, mtype |-> t, seq |-> seq, resp |-> RespOk, data |-> OnePayload] :
        t \in {1, NotificationType}}

\* One iteration of `while True` in _rx_loop on frame f. cbRaises: the callback,
\* if it is called, raises.
RxFrame(f, cbRaises) ==
    /\ rxTask = "running"
    /\ cbCount < MaxFrames
    /\ Len(cpQueue) < MaxFrames
    /\ IF f.ver # WFTNP_VERSION
       THEN \* raise WFTNPError: the task ends with that exception
            /\ rxTask' = "failed_version"
            /\ UNCHANGED <<pending, fut, cpQueue, cbCount, cbLast>>
       ELSE IF IsNotification(f.mtype)
       THEN /\ pending' = PendingAfterNotification(pending, f.seq)
            /\ fut' = Collect(pending', req, fut)
            /\ IF f.data.len >= UuidLen
               THEN /\ cpQueue' = IF MailboxAccepts(cpUuid, f.data.head)
                                  THEN Append(cpQueue, f.data.tail)
                                  ELSE cpQueue
                    /\ IF CallbackCalled(notifyCb)
                       THEN /\ cbCount' = cbCount + 1
                            /\ cbLast' = <<f.data.head, f.data.tail>>
                            /\ rxTask' = IF CallbackEndsLoop(notifyCb, cbRaises)
                                         THEN "failed_callback"
                                         ELSE rxTask
                       ELSE UNCHANGED <<cbCount, cbLast, rxTask>>
               ELSE UNCHANGED <<cpQueue, cbCount, cbLast, rxTask>>
       ELSE LET key == LookupKey(f.mtype, f.seq)
            IN  /\ pending' = PendingPop(pending, key)
                /\ fut' = Collect(pending', req,
                            IF key \in DOMAIN pending /\ fut[pending[key]].st = "waiting"
                            THEN [fut EXCEPT ![pending[key]] = ResultFuture(f.resp, f.data)]
                            ELSE fut)
                /\ UNCHANGED <<cpQueue, cbCount, cbLast, rxTask>>
    /\ UNCHANGED <<seq, req, nreq, reader, writer, connId, notifyCb, cpUuid,
                   closer, jumps>>
    /\ UNCHANGED upperVars

\* readexactly raises: IncompleteReadError at EOF, or the connection's I/O error.
\* The task ends with that exception; nothing else runs.
RxDies(how) ==
    /\ rxTask = "running"
    /\ rxTask' = how
    /\ UNCHANGED <<seq, pending, reqVars, reader, writer, connId, notifVars,
                   closer, jumps>>
    /\ UNCHANGED upperVars

\* n requests of type t issued one after the other on a healthy connection, each
\* answered with code 0 before the next is issued, none of them meeting an entry
\* already in the table: every one inserts its entry, has it popped by _rx_loop and
\* returns, so together they only advance the counter n times.
RoundTrips(t, n) ==
    /\ jumps < MaxJumps
    /\ writer = "open"
    /\ rxTask = "running"
    /\ closer = "idle"
    /\ \A i \in 1..n : <<t, (seq + i) % SeqMod>> \notin DOMAIN pending
    /\ seq' = (seq + n) % SeqMod
    /\ jumps' = jumps + 1
    /\ UNCHANGED <<pending, reqVars, connVars, notifVars, closer>>
    /\ UNCHANGED upperVars

\* Length of the RoundTrips runs explored: one short of a full cycle of the u8
\* counter, so that the next request reuses a sequence byte.
JumpLen == SeqMask

\* ------------------------------------------------------- _await_cp_result

\* The opcodes waited for here.
CpOpcodes == {OpRequestControl, OpSetTargetPower}

\* Values notified on the control point: indications for either opcode with a
\* result of SUCCESS or not, one of two bytes, one whose first byte is not 0x80.
CpPackets ==
    {<<CpIndication, op, res>> : op \in CpOpcodes, res \in {CpSuccess, CpNotPermitted}}
    \cup {<<CpIndication, OpRequestControl>>, <<0, OpRequestControl, CpSuccess>>}

CpPayloads ==
    {LongPayload(FTMS_CONTROL_POINT_UUID, pkt) : pkt \in CpPackets}
    \cup {LongPayload(INDOOR_BIKE_DATA_UUID, <<CpIndication, OpRequestControl, CpSuccess>>)}

\* An indication for another opcode taken as the answer (not what the code does).
CpMatchesAnyOpcode(pkt, op) == Len(pkt) >= 3 /\ pkt[1] = CpIndication

\* if len(pkt) >= 3 and pkt[0] == 0x80 and pkt[1] == expected_req_opcode
CpMatches(pkt, op) == Len(pkt) >= 3 /\ pkt[1] = CpIndication /\ pkt[2] = op

\* _await_cp_result(op) is called (the control-point write has returned).
CpBegin(op) ==
    /\ cpWait.pc # "waiting"
    /\ cpWait' = WaitingFor(op, now)
    /\ UNCHANGED <<seq, pending, reqVars, connVars, notifVars, closer, jumps, now>>
    /\ UNCHANGED notCp

\* wait_for(self._cp_queue.get()) returns the oldest entry; the loop body runs
\* on it: a matching entry ends the call (return, or raise on a result other
\* than SUCCESS), any other is dropped and a new wait_for begins.
CpGet ==
    /\ cpWait.pc = "waiting"
    /\ cpQueue # <<>>
    /\ cpQueue' = Tail(cpQueue)
    /\ LET pkt == Head(cpQueue)
       IN  cpWait' =
             IF CpMatches(pkt, cpWait.op)
             THEN IF pkt[3] # CpSuccess
                  THEN DoneWait(cpWait.op, "FTMSControlPointError", pkt[3], cpWait.skipped)
                  ELSE DoneWait(cpWait.op, "ok", 0, cpWait.skipped)
             ELSE [cpWait EXCEPT !.armed = now, !.skipped = TRUE]
    /\ UNCHANGED <<seq, pending, reqVars, connVars, notifyCb, cpUuid, cbCount, cbLast,
                   closer, jumps, now>>
    /\ UNCHANGED notCp

\* The timeout of the current wait_for expires with the mailbox empty.
CpTimeout ==
    /\ cpWait.pc = "waiting"
    /\ cpQueue = <<>>
    /\ now - cpWait.armed >= CP_TIMEOUT
    /\ cpWait' = DoneWait(cpWait.op, "TimeoutError", 0, cpWait.skipped)
    /\ UNCHANGED <<seq, pending, reqVars, connVars, notifVars, closer, jumps, now>>
    /\ UNCHANGED notCp

\* A second passes. It does not while the waiting coroutine can run at once: an
\* entry is in the mailbox, or its timeout is due.
Tick ==
    /\ now < MaxTime
    /\ cpWait.pc = "waiting" => cpQueue = <<>> /\ now - cpWait.armed < CP_TIMEOUT
    /\ now' = now + 1
    /\ UNCHANGED <<seq, pending, reqVars, connVars, notifVars, closer, jumps, cpWait>>
    /\ UNCHANGED notCp

\* The client after connect() and ftms_init(): three requests answered (no Indoor
\* Bike Data on the device), the control-point UUID cached, no callback installed.
ReadyClient ==
    /\ seq = 3
    /\ pending = <<>>
    /\ fut = [r \in Slots |-> NoFuture]
    /\ req = [r \in Slots |-> IdleRequest]
    /\ nreq = 0
    /\ rxTask = "running"
    /\ reader = "open"
    /\ writer = "open"
    /\ connId = 1
    /\ notifyCb = "none"
    /\ cpUuid = FTMS_CONTROL_POINT_UUID
    /\ cpQueue = <<>>
    /\ cbCount = 0
    /\ cbLast = <<NoUuid, "v1">>
    /\ closer = "idle"
    /\ jumps = 0
    /\ cpWait = IdleWait
    /\ now = 0
    /\ ini = IdleInit
    /\ issued = <<>>
    /\ lock = "none"
    /\ connected = FALSE
    /\ hasControl = "unset"
    /\ poll = NewPoll
    /\ cm = [c \in Commands |-> IdleCommand]
    /\ acquiredOn = 0
    /\ tele = NewTelemetry(0, DefaultOptions)
    /\ manual = FALSE
    /\ shut = "no"
    /\ wire = NoWire
    /\ spawn = NoSpawn

CpInit ==
    /\ ReadyClient
    /\ codec = NoCodec

\* ------------------------------------------------------------- ftms_init

\* ftms_init ends: return ("ok") or raise WFTNPError for the reason out.
DoneInit(out) == [ini EXCEPT !.pc = "done", !.out = out]

\* The control-point UUID left uncached by ftms_init (not what the code does).
CpUuidNotCached(old) == old

\* self.ftms_control_point_uuid = FTMS_CONTROL_POINT_UUID
CpUuidCached(old) == FTMS_CONTROL_POINT_UUID

\* The enable_notifications request that follows the one answered at pc, if any:
\* Indoor Bike Data when asked for and discovered, then Status likewise.
NextEnable(pc, i) ==
    IF pc = "enable_cp" /\ i.sub /\ i.hasIbd THEN "enable_ibd"
    ELSE IF pc \in {"enable_cp", "enable_ibd"} /\ i.st /\ i.hasSt THEN "enable_status"
    ELSE "done"

\* ftms_init is called: it issues discover_services.
IniCall(sub, st) ==
    /\ ini.pc \in {"idle", "done"}
    /\ ini' = [IdleInit EXCEPT !.pc = "discover_services", !.sub = sub, !.st = st]
    /\ issued' = <<"discover_services">>
    /\ UNCHANGED <<seq, pending, reqVars, connVars, notifVars, closer, jumps, notFtms>>

\* discover_services is answered: res is "error" (the request raises), "absent"
\* (the FTMS service is not in the list) or "present"; on "present" ftms_init
\* issues discover_characteristics(FTMS).
IniServices(res) ==
    /\ ini.pc = "discover_services"
    /\ IF res = "error" THEN ini' = DoneInit("request_failed") /\ UNCHANGED issued
       ELSE IF res = "absent" THEN ini' = DoneInit("no_ftms_service") /\ UNCHANGED issued
       ELSE /\ ini' = [ini EXCEPT !.pc = "discover_characteristics"]
            /\ issued' = Append(issued, "discover_characteristics")
    /\ UNCHANGED <<seq, pending, reqVars, connVars, notifVars, closer, jumps, notFtms>>

\* discover_characteristics is answered: "error", the control point "absent", or
\* "present" (with or without Indoor Bike Data and Status); on "present"
\* ftms_init caches the control-point UUID and issues enable_notifications on it.
IniChars(res, hasIbd, hasSt) ==
    /\ ini.pc = "discover_characteristics"
    /\ IF res = "error"
       THEN ini' = DoneInit("request_failed") /\ UNCHANGED <<issued, cpUuid>>
       ELSE IF res = "absent"
       THEN ini' = DoneInit("no_control_point") /\ UNCHANGED <<issued, cpUuid>>
       ELSE /\ cpUuid' = CpUuidCached(cpUuid)
            /\ ini' = [ini EXCEPT !.pc = "enable_cp", !.hasIbd = hasIbd, !.hasSt = hasSt]
            /\ issued' = Append(issued, "enable_cp")
    /\ UNCHANGED <<seq, pending, reqVars, connVars, notifyCb, cpQueue, cbCount, cbLast,
                   closer, jumps, notFtms>>

\* An enable_notifications request is answered: ftms_init raises on an error,
\* else issues the next one or returns.
IniEnabled(ok) ==
    /\ ini.pc \in {"enable_cp", "enable_ibd", "enable_status"}
    /\ IF ~ok THEN ini' = DoneInit("request_failed") /\ UNCHANGED issued
       ELSE IF NextEnable(ini.pc, ini) = "done"
       THEN ini' = DoneInit("ok") /\ UNCHANGED issued
       ELSE /\ ini' = [ini EXCEPT !.pc = NextEnable(ini.pc, ini)]
            /\ issued' = Append(issued, NextEnable(ini.pc, ini))
    /\ UNCHANGED <<seq, pending, reqVars, connVars, notifVars, closer, jumps, notFtms>>

\* The client after connect(): nothing requested yet, nothing cached.
FtmsInit ==
    /\ seq = 0
    /\ pending = <<>>
    /\ fut = [r \in Slots |-> NoFuture]
    /\ req = [r \in Slots |-> IdleRequest]
    /\ nreq = 0
    /\ rxTask = "running"
    /\ reader = "open"
    /\ writer = "open"
    /\ connId = 1
    /\ notifyCb = "none"
    /\ cpUuid = NoUuid
    /\ cpQueue = <<>>
    /\ cbCount = 0
    /\ cbLast = <<NoUuid, "v1">>
    /\ closer = "idle"
    /\ jumps = 0
    /\ cpWait = IdleWait
    /\ now = 0
    /\ ini = IdleInit
    /\ issued = <<>>
    /\ lock = "none"
    /\ connected = FALSE
    /\ hasControl = "unset"
    /\ poll = NewPoll
    /\ cm = [c \in Commands |-> IdleCommand]
    /\ acquiredOn = 0
    /\ tele = NewTelemetry(0, DefaultOptions)
    /\ manual = FALSE
    /\ shut = "no"
    /\ wire = NoWire
    /\ spawn = NoSpawn
    /\ codec = NoCodec

\* ------------------------------------------------------ the session coordinator

\* The coordinator drives one client (coordinator.py:68). Here a client method
\* is one await: the step that resumes the caller picks an outcome the transport
\* allows, and no step resumes a caller whose request can never be answered.

\* close() as the coordinator sees it (wftnp.py:188-202). `await self._rx_task`
\* re-raises what ended the receive loop, so close() on a dead loop raises before
\* it touches the writer and leaves every field as it was.
CloseRaises(rx) == rx \in RxFailedStates
RxAfterClose(rx) == IF CloseRaises(rx) THEN rx ELSE "none"
WriterAfterClose(rx, w) == IF CloseRaises(rx) THEN w ELSE "none"

\* `async with self._lock` may enter when nobody holds the lock.
LockFreeAlways(l) == TRUE

LockFree(l) == l = "none"

\* How a run of the polling task ends: setup is followed by the first refresh,
\* that one by the ticks.
EndPoll(out) ==
    [poll EXCEPT !.pc = "idle", !.out = out,
                 !.mode = IF @ = "setup" THEN "first" ELSE IF @ = "first" THEN "tick" ELSE @]

\* The config entry is set up and has had its first refresh: the entities and
\* the services exist.
AfterSetup == poll.mode \in {"tick", "manual"}

\* The config entry is loaded: async_shutdown has not run, so the periodic
\* check is subscribed (coordinator.py:114-117, 224-226) and the services find
\* the coordinator (__init__.py:57).
Loaded == shut = "no"

\* What the polling task and the facade commands never touch.
sessLeaves == <<reqVars, cpQueue, cbCount, cbLast, closer, jumps, notSess, manual>>

\* The except branch of _connect_and_init (coordinator.py:246-250): close the
\* client, clear _connected, raise again. async_setup logs the error,
\* _attempt_reconnect turns it into UpdateFailed and the lock is released; a
\* manual connect lets it pass.
\* rx: the receive loop's task when the handler runs.
ConnectAndInitFails(rx) ==
    /\ rxTask' = RxAfterClose(rx)
    /\ writer' = WriterAfterClose(rx, writer)
    /\ connected' = IF CloseRaises(rx) THEN connected ELSE FALSE
    /\ IF poll.mode = "setup"
       THEN poll' = EndPoll("setup_failed") /\ lock' = lock
       ELSE /\ poll' = EndPoll(IF poll.mode = "manual" THEN "raised" ELSE "UpdateFailed")
            /\ lock' = "none"

\* async_setup (coordinator.py:102-117): installs the notification callback and
\* calls _connect_and_init without taking the lock.
SetupRun ==
    /\ poll.pc = "new"
    /\ notifyCb' = "async"
    /\ poll' = [poll EXCEPT !.pc = "connecting"]
    /\ UNCHANGED <<seq, pending, rxTask, reader, writer, connId, cpUuid,
                   lock, connected, hasControl, cm, acquiredOn>>
    /\ UNCHANGED sessLeaves

\* The update timer fires: _async_update_data starts and asks for the lock.
TickRun ==
    /\ poll.pc = "idle"
    /\ Loaded
    /\ poll' = [pc |-> "lock", mode |-> IF poll.mode = "manual" THEN "tick" ELSE poll.mode,
                out |-> "none", failed |-> FALSE, attempts |-> 0, wasManual |-> FALSE]
    /\ UNCHANGED <<seq, pending, rxTask, reader, writer, connId, notifyCb, cpUuid,
                   lock, connected, hasControl, cm, acquiredOn>>
    /\ UNCHANGED sessLeaves

\* _async_update_data inside the lock (coordinator.py:162-176): reconnect when
\* not connected, else probe the connection.
TickAcquire ==
    /\ poll.pc = "lock"
    /\ poll.mode # "manual"
    /\ LockFree(lock)
    /\ lock' = "tick"
    /\ poll' = IF connected
               THEN [poll EXCEPT !.pc = "probe", !.wasManual = manual]
               ELSE [poll EXCEPT !.pc = "connecting", !.attempts = @ + 1,
                                 !.wasManual = manual]
    /\ UNCHANGED <<seq, pending, rxTask, reader, writer, connId, notifyCb, cpUuid,
                   connected, hasControl, cm, acquiredOn>>
    /\ UNCHANGED sessLeaves

\* The outcomes wait_for(discover_services(), 3.0) can have: an answer needs a
\* running receive loop; an error is an error response, a reset connection or
\* the assertion on a missing writer; the timeout is always possible.
ProbeOutcomes ==
    (IF rxTask = "running" /\ writer = "open" THEN {"ok", "error"} ELSE {})
    \cup (IF rxTask = "failed_io" \/ writer = "none" THEN {"error"} ELSE {})
    \cup {"timeout"}

\* _verify_connection resumes (coordinator.py:178-191). A failed probe clears
\* _connected, closes the client and calls _attempt_reconnect.
ProbeDone(res) ==
    /\ poll.pc = "probe"
    /\ res \in ProbeOutcomes
    /\ IF res = "ok"
       THEN /\ poll' = EndPoll("ok")
            /\ lock' = "none"
            /\ UNCHANGED <<connected, rxTask, writer>>
       ELSE /\ connected' = FALSE
            /\ rxTask' = RxAfterClose(rxTask)
            /\ writer' = WriterAfterClose(rxTask, writer)
            /\ IF CloseRaises(rxTask)
               THEN /\ poll' = [EndPoll("raised") EXCEPT !.failed = TRUE]
                    /\ lock' = "none"
               ELSE /\ poll' = [poll EXCEPT !.pc = "connecting", !.failed = TRUE,
                                            !.attempts = @ + 1]
                    /\ lock' = lock
    /\ UNCHANGED <<seq, pending, reader, connId, notifyCb, cpUuid,
                   hasControl, cm, acquiredOn>>
    /\ UNCHANGED sessLeaves

\* connect() resumes inside _connect_and_init (coordinator.py:230-237; the
\* close of a connected client before it is never taken: every caller comes
\* with _connected false). It opens the connection as Connect does, or raises.
CiConnected(ok) ==
    /\ poll.pc = "connecting"
    /\ IF ok
       THEN /\ connId < MaxConn
            /\ reader' = "open"
            /\ writer' = "open"
            /\ rxTask' = "running"
            /\ connId' = connId + 1
            /\ seq' = SeqAfterConnect(seq)
            /\ pending' = PendingAfterConnect(pending)
            /\ poll' = [poll EXCEPT !.pc = "initialising"]
            /\ UNCHANGED <<lock, connected>>
       ELSE /\ ConnectAndInitFails(rxTask)
            /\ UNCHANGED <<reader, connId, seq, pending>>
    /\ UNCHANGED <<notifyCb, cpUuid, hasControl, cm, acquiredOn>>
    /\ UNCHANGED sessLeaves

\* The outcomes ftms_init can have: success needs every request answered; an
\* error is an error response (the peer may hang up right after it, so the
\* receive loop has ended on EOF when the caller resumes) or a reset connection,
\* before or after the control-point UUID was cached.
InitOutcomes ==
    (IF rxTask = "running" THEN {"ok", "early_error", "late_error", "late_error_eof"} ELSE {})
    \cup (IF rxTask = "failed_io" THEN {"early_error", "late_error"} ELSE {})

\* ftms_init resumes inside _connect_and_init (coordinator.py:238-250).
CiInitDone(res) ==
    /\ poll.pc = "initialising"
    /\ res \in InitOutcomes
    /\ IF res = "ok"
       THEN /\ cpUuid' = CpUuidCached(cpUuid)
            /\ connected' = TRUE
            /\ hasControl' = "false"
            /\ poll' = EndPoll("ok")
            /\ lock' = IF poll.mode = "setup" THEN lock ELSE "none"
            /\ UNCHANGED <<rxTask, writer>>
       ELSE /\ cpUuid' = IF res = "early_error" THEN cpUuid ELSE CpUuidCached(cpUuid)
            /\ ConnectAndInitFails(IF res = "late_error_eof" THEN "failed_eof" ELSE rxTask)
            /\ UNCHANGED hasControl
    /\ UNCHANGED <<seq, pending, reader, connId, notifyCb, cm, acquiredOn>>
    /\ UNCHANGED sessLeaves

\* The facade commands: "request_control" only makes sure of control
\* (coordinator.py:273-275), "set_erg" follows with set_erg_watts
\* (coordinator.py:252-255).
CommandKinds == {"request_control", "set_erg"}
HasOperation(kind) == kind = "set_erg"

\* A service call starts a facade command; the services are registered once
\* async_setup and the first refresh have returned, whatever their outcome.
CmdCall(c, kind) ==
    /\ AfterSetup
    /\ Loaded
    /\ cm[c].pc \in {"idle", "done"}
    /\ cm' = [cm EXCEPT ![c] = [pc |-> "lock", kind |-> kind, out |-> "none"]]
    /\ UNCHANGED <<seq, pending, rxTask, reader, writer, connId, notifyCb, cpUuid,
                   lock, connected, hasControl, poll, acquiredOn>>
    /\ UNCHANGED sessLeaves

\* How a command ends: the lock is released.
EndCommand(c, out) == [cm EXCEPT ![c].pc = "done", ![c].out = out]

\* The command enters the lock and _ensure_control starts
\* (coordinator.py:205-212): reading _has_control raises AttributeError while
\* nothing has assigned it; with control it goes straight to the operation.
CmdAcquire(c) ==
    /\ cm[c].pc = "lock"
    /\ LockFree(lock)
    /\ IF hasControl = "unset"
       THEN cm' = EndCommand(c, "AttributeError") /\ lock' = lock
       ELSE IF hasControl = "false"
       THEN cm' = [cm EXCEPT ![c].pc = "rc"] /\ lock' = c
       ELSE IF HasOperation(cm[c].kind)
       THEN cm' = [cm EXCEPT ![c].pc = "op"] /\ lock' = c
       ELSE cm' = EndCommand(c, "ok") /\ lock' = lock
    /\ UNCHANGED <<seq, pending, rxTask, reader, writer, connId, notifyCb, cpUuid,
                   connected, hasControl, poll, acquiredOn>>
    /\ UNCHANGED sessLeaves

\* Whether the write of an FTMS operation goes out: the assertions on the
\* cached UUID and the writer pass (wftnp.py:354, 249) and the connection is
\* not lost.
Wired == writer = "open" /\ cpUuid # NoUuid /\ rxTask # "failed_io"

\* The outcomes of an FTMS operation (write, then wait for the indication).
FtmsOutcomes ==
    (IF rxTask = "running" /\ Wired
         THEN {"ok", "FTMSControlPointError", "WFTNPError"} ELSE {})
    \cup (IF writer = "open" /\ cpUuid # NoUuid
         THEN (IF rxTask = "failed_io" THEN {"ConnectionResetError"} ELSE {"TimeoutError"})
         ELSE {"AssertionError"})

FtmsResults ==
    {"ok", "FTMSControlPointError", "WFTNPError", "ConnectionResetError",
     "TimeoutError", "AssertionError"}

\* _ensure_control turns these two into RuntimeError (coordinator.py:215-221).
Wrapped(res) ==
    IF res \in {"FTMSControlPointError", "WFTNPError"} THEN "RuntimeError" ELSE res

\* request_control() resumes in _ensure_control (coordinator.py:213).
CmdRcDone(c, res) ==
    /\ cm[c].pc = "rc"
    /\ res \in FtmsOutcomes
    /\ IF res = "ok"
       THEN cm' = [cm EXCEPT ![c].pc = "st"] /\ lock' = lock
       ELSE cm' = EndCommand(c, Wrapped(res)) /\ lock' = "none"
    /\ UNCHANGED <<seq, pending, rxTask, reader, writer, connId, notifyCb, cpUuid,
                   connected, hasControl, poll, acquiredOn>>
    /\ UNCHANGED sessLeaves

\* start_training() resumes in _ensure_control (coordinator.py:214-215):
\* control is held, and the command goes on to its operation.
CmdStDone(c, res) ==
    /\ cm[c].pc = "st"
    /\ res \in FtmsOutcomes
    /\ IF res = "ok"
       THEN /\ hasControl' = "true"
            /\ acquiredOn' = connId
            /\ IF HasOperation(cm[c].kind)
               THEN cm' = [cm EXCEPT ![c].pc = "op"] /\ lock' = lock
               ELSE cm' = EndCommand(c, "ok") /\ lock' = "none"
       ELSE /\ cm' = EndCommand(c, Wrapped(res))
            /\ lock' = "none"
            /\ UNCHANGED <<hasControl, acquiredOn>>
    /\ UNCHANGED <<seq, pending, rxTask, reader, writer, connId, notifyCb, cpUuid,
                   connected, poll>>
    /\ UNCHANGED sessLeaves

\* The command's own operation resumes (coordinator.py:255).
CmdOpDone(c, res) ==
    /\ cm[c].pc = "op"
    /\ res \in FtmsOutcomes
    /\ cm' = EndCommand(c, res)
    /\ lock' = "none"
    /\ UNCHANGED <<seq, pending, rxTask, reader, writer, connId, notifyCb, cpUuid,
                   connected, hasControl, poll, acquiredOn>>
    /\ UNCHANGED sessLeaves

\* --------------------------------------------------------------- telemetry

\* The parsed Indoor Bike Data packets: a non-empty dict (on_notify drops an
\* empty one, coordinator.py:106) giving some of the metrics; power is signed.
MetricValues(k) ==
    IF k = "power_w" THEN {-1, 0} ELSE IF k = "cadence_rpm" THEN {1} ELSE {0, 1}
Packets ==
    UNION {{d \in [ks -> -1..1] : \A k \in ks : d[k] \in MetricValues(k)} :
              ks \in (SUBSET Metrics) \ {{}}}

\* _has_activity (coordinator.py:40-50)
HasActivity(d) == \E k \in DOMAIN d \cap Metrics : d[k] > 0

\* _is_sleeping (coordinator.py:132-135)
IsSleepingNever(t, last) == FALSE

IsSleeping(t, last) ==
    IF t.sleep_timeout <= 0 THEN FALSE ELSE (t.now - last) >= t.sleep_timeout

\* `if has_activity: self._last_activity_monotonic = now` (coordinator.py:127-128)
LastActivityAlwaysNow(has, now_, old) == now_

LastActivityAfter(has, now_, old) == IF has THEN now_ ELSE old

\* dict(self.data or {}) updated with the packet (coordinator.py:146-147)
Merged(old, d) ==
    [k \in DOMAIN old \cup DOMAIN d |-> IF k \in DOMAIN d THEN d[k] ELSE old[k]]

\* _maybe_publish_last_seen (coordinator.py:137-143)
NeverPublishLastSeen(t) == [t EXCEPT !.published = "none"]

MaybePublishLastSeen(t) ==
    IF (t.now - t.last_seen_publish_monotonic) < t.last_seen_interval
    THEN [t EXCEPT !.published = "none"]
    ELSE [t EXCEPT !.last_seen_publish_monotonic = t.now,
                   !.last_seen = t.now,
                   !.published = "last_seen",
                   !.seen_at = t.now]

\* The throttle test of _publish_active (coordinator.py:150-153)
ThrottledNever(t) == FALSE

Throttled(t) ==
    t.update_throttle # 0 /\ (t.now - t.last_publish_monotonic) < t.update_throttle

\* _publish_active (coordinator.py:145-157): `updated`, the snapshot merged
\* with the packet, is a local; a throttled packet returns before it is stored.
PublishActiveAlone(t, d) ==
    IF Throttled(t)
    THEN [t EXCEPT !.published = "none"]
    ELSE [t EXCEPT !.last_publish_monotonic = t.now,
                   !.data = Merged(t.data, d),
                   !.last_seen = t.now,
                   !.published = "active",
                   !.active_at = t.now,
                   !.gap = IF t.active_at >= 0 THEN t.now - t.active_at ELSE -1]

PublishActive(t, d) ==
    IF Throttled(t)
    THEN [t EXCEPT !.published = "none"]
    ELSE [t EXCEPT !.last_publish_monotonic = t.now,
                   !.last_seen_publish_monotonic = t.now,
                   !.data = Merged(t.data, d),
                   !.last_seen = t.now,
                   !.published = "active",
                   !.active_at = t.now,
                   !.gap = IF t.active_at >= 0 THEN t.now - t.active_at ELSE -1]

\* _handle_indoor_bike_data (coordinator.py:119-130) on packet d in state te.
Handled(te, d) ==
    LET has == HasActivity(d)
        t == [te EXCEPT !.handled = @ + 1]
    IN  IF ~has /\ IsSleeping(t, t.last_activity_monotonic)
        THEN MaybePublishLastSeen(t)
        ELSE PublishActive(
               [t EXCEPT !.last_activity_monotonic = LastActivityAfter(has, t.now, @)],
               d)

\* A notification with packet d arrives. At most MaxPerTick packets are
\* handled at one value of the clock.
HandleIndoorBikeData(d) ==
    /\ tele.handled < MaxPerTick
    /\ tele' = Handled(tele, d)
    /\ UNCHANGED <<seq, pending, reqVars, connVars, notifVars, closer, jumps>>
    /\ UNCHANGED notTele

\* time.monotonic() moves on, up to max.
ClockTickTo(max) ==
    /\ tele.now < max
    /\ tele' = [tele EXCEPT !.now = @ + 1, !.handled = 0]
    /\ UNCHANGED <<seq, pending, reqVars, connVars, notifVars, closer, jumps>>
    /\ UNCHANGED notTele

ClockTick == ClockTickTo(MaxClock)

\* The scenario of test_idle_packets_do_not_reset_activity_timer
\* (test_coordinator.py:28-66): options 10 / 1 / 0, _last_activity_monotonic
\* 0, a snapshot published beforehand, then idle packets at times of the
\* environment's choosing, whose arrival times are recorded.
TrioOptions == [sleep_timeout |-> 10, last_seen_interval |-> 1, update_throttle |-> 0]
TrioSnapshot == [k \in Metrics |-> 1]
TrioPackets == {[k \in Metrics |-> 0], [k \in {"speed_kmh"} |-> 0]}

TrioPacket(d) ==
    /\ Len(tele.arrivals) < MaxArrivals
    /\ tele.handled < MaxPerTick
    /\ tele' = [Handled(tele, d) EXCEPT !.arrivals = Append(tele.arrivals, tele.now)]
    /\ UNCHANGED <<seq, pending, reqVars, connVars, notifVars, closer, jumps>>
    /\ UNCHANGED notTele

TrioTick == ClockTickTo(MaxTrioClock)

\* A coordinator constructed at any time with any options.
TeleInit ==
    /\ seq = 0
    /\ pending = <<>>
    /\ fut = [r \in Slots |-> NoFuture]
    /\ req = [r \in Slots |-> IdleRequest]
    /\ nreq = 0
    /\ rxTask = "none"
    /\ reader = "none"
    /\ writer = "none"
    /\ connId = 0
    /\ notifyCb = "none"
    /\ cpUuid = NoUuid
    /\ cpQueue = <<>>
    /\ cbCount = 0
    /\ cbLast = <<NoUuid, "v1">>
    /\ closer = "idle"
    /\ jumps = 0
    /\ cpWait = IdleWait
    /\ now = 0
    /\ ini = IdleInit
    /\ issued = <<>>
    /\ lock = "none"
    /\ connected = FALSE
    /\ hasControl = "unset"
    /\ poll = NewPoll
    /\ cm = [c \in Commands |-> IdleCommand]
    /\ acquiredOn = 0
    /\ \E t0 \in 0..1, o \in Options : tele = NewTelemetry(t0, o)
    /\ manual = FALSE
    /\ shut = "no"
    /\ wire = NoWire
    /\ spawn = NoSpawn
    /\ codec = NoCodec

\* The coordinator of the idle-trio scenario.
TrioInit ==
    /\ seq = 0
    /\ pending = <<>>
    /\ fut = [r \in Slots |-> NoFuture]
    /\ req = [r \in Slots |-> IdleRequest]
    /\ nreq = 0
    /\ rxTask = "none"
    /\ reader = "none"
    /\ writer = "none"
    /\ connId = 0
    /\ notifyCb = "none"
    /\ cpUuid = NoUuid
    /\ cpQueue = <<>>
    /\ cbCount = 0
    /\ cbLast = <<NoUuid, "v1">>
    /\ closer = "idle"
    /\ jumps = 0
    /\ cpWait = IdleWait
    /\ now = 0
    /\ ini = IdleInit
    /\ issued = <<>>
    /\ lock = "none"
    /\ connected = FALSE
    /\ hasControl = "unset"
    /\ poll = NewPoll
    /\ cm = [c \in Commands |-> IdleCommand]
    /\ acquiredOn = 0
    /\ tele = [NewTelemetry(0, TrioOptions) EXCEPT !.data = TrioSnapshot]
    /\ manual = FALSE
    /\ shut = "no"
    /\ wire = NoWire
    /\ spawn = NoSpawn
    /\ codec = NoCodec

\* ------------------------------------------------------------- specifications

\* Requests and their answers, cancellation, close and reconnect.
Next ==
    \/ Connect
    \/ CloseBegin
    \/ CloseRxDone
    \/ CloseEnd
    \/ \E t \in IssuedTypes : Request(t)
    \/ \E r \in Slots : ReqReturn(r)
    \/ \E r \in Slots : ReqCancel(r)
    \/ \E f \in ResponseFrames \cup NotificationFrames({OnePayload}) \cup BadVersionFrames :
          RxFrame(f, FALSE)
    \/ \E how \in {"failed_eof", "failed_io"} : RxDies(how)
    \/ \E t \in IssuedTypes : RoundTrips(t, JumpLen)

Spec == Init /\ [][Next]_vars

\* Notifications: the callback, the cached control-point UUID, the mailbox.
NotifyNext ==
    \/ Connect
    \/ \E cb \in {"sync", "async"} : SetNotificationCallback(cb)
    \/ \E t \in {2} : Request(t)
    \/ \E r \in Slots : ReqReturn(r)
    \/ \E r \in Slots : FtmsInitCaches(r)
    \/ \E f \in ResponseFrames \cup NotificationFrames(Payloads) \cup BadVersionFrames,
          b \in BOOLEAN : RxFrame(f, b)

NotifySpec == Init /\ [][NotifyNext]_vars

\* The control-point round trip: indications arriving, the wait, the clock.
CpNext ==
    \/ \E f \in NotificationFrames(CpPayloads) : RxFrame(f, FALSE)
    \/ \E op \in CpOpcodes : CpBegin(op)
    \/ CpGet
    \/ CpTimeout
    \/ Tick

CpSpec == CpInit /\ [][CpNext]_vars

\* What a device answers to stop_training: SUCCESS, OP_CODE_NOT_SUPPORTED or
\* CONTROL_NOT_PERMITTED.
StopPayloads ==
    {LongPayload(FTMS_CONTROL_POINT_UUID, <<CpIndication, OpStopTraining, res>>) :
        res \in {CpSuccess, CpNotSupported, CpNotPermitted}}

\* stop_training (wftnp.py:368-374) has written its opcode and waits for the
\* indication.
StopTraining == CpBegin(OpStopTraining)

\* async_stop_training (coordinator.py:286-289) awaits stop_training and
\* catches nothing: the command ends as stop_training did.
AsyncStopTraining(w) == w.out

\* stop_training against a device that answers as it likes.
StopNext ==
    \/ \E f \in NotificationFrames(StopPayloads) : RxFrame(f, FALSE)
    \/ StopTraining
    \/ CpGet
    \/ CpTimeout
    \/ Tick

StopSpec == CpInit /\ [][StopNext]_vars

\* ftms_init against a peer that answers each request as it likes.
FtmsNext ==
    \/ \E sub, st \in BOOLEAN : IniCall(sub, st)
    \/ \E res \in {"error", "absent", "present"} : IniServices(res)
    \/ \E res \in {"error", "absent", "present"}, hasIbd, hasSt \in BOOLEAN :
          IniChars(res, hasIbd, hasSt)
    \/ \E ok \in BOOLEAN : IniEnabled(ok)

FtmsSpec == FtmsInit /\ [][FtmsNext]_vars

\* The coordinator: setup, the periodic tick, facade commands, a connection
\* that dies when it likes.
SessionNext ==
    \/ SetupRun
    \/ TickRun
    \/ TickAcquire
    \/ \E res \in {"ok", "error", "timeout"} : ProbeDone(res)
    \/ \E ok \in BOOLEAN : CiConnected(ok)
    \/ \E res \in {"ok", "early_error", "late_error", "late_error_eof"} : CiInitDone(res)
    \/ \E c \in Commands, kind \in CommandKinds : CmdCall(c, kind)
    \/ \E c \in Commands : CmdAcquire(c)
    \/ \E c \in Commands, res \in FtmsResults : CmdRcDone(c, res)
    \/ \E c \in Commands, res \in FtmsResults : CmdStDone(c, res)
    \/ \E c \in Commands, res \in FtmsResults : CmdOpDone(c, res)
    \/ \E how \in {"failed_eof", "failed_io"} : RxDies(how)

SessionSpec == Init /\ [][SessionNext]_vars

\* --------------------------------------------------- notification tasks

\* The packets told apart here.
SpawnPackets ==
    {[k \in {"speed_kmh"} |-> 1], [k \in {"power_w"} |-> 0], [k \in {"cadence_rpm"} |-> 1]}

\* The receive loop gets an Indoor Bike Data notification: the callback returns
\* a coroutine and `asyncio.create_task(out)` queues it (wftnp.py:234-238). The
\* loop goes on to the next frame without waiting for the task.
RxSpawns(d) ==
    /\ Len(spawn.received) < MaxArrivals
    /\ spawn' = [spawn EXCEPT !.ready = Append(@, d), !.received = Append(@, d)]
    /\ UNCHANGED <<seq, pending, reqVars, connVars, notifVars, closer, jumps,
                   cpVars, ftmsVars, sessVars, tele, manual, codec, shut, wire>>

\* The task the event loop runs next: tasks start in the order in which
\* create_task queued them.
NextReadyLast(q) == Len(q)

NextReady(q) == 1

\* The queue without its i-th task.
Without(q, i) == SubSeq(q, 1, i - 1) \o SubSeq(q, i + 1, Len(q))

\* The event loop runs a queued task: on_notify (coordinator.py:103-107) and
\* the _handle_indoor_bike_data it awaits contain no await that suspends, so
\* the task handles its packet and ends in one go.
RunNotifyTask ==
    /\ spawn.ready # <<>>
    /\ LET i == NextReady(spawn.ready)
       IN  /\ tele' = Handled(tele, spawn.ready[i])
           /\ spawn' = [spawn EXCEPT !.ready = Without(@, i),
                                     !.ingested = Append(@, spawn.ready[i])]
    /\ UNCHANGED <<seq, pending, reqVars, connVars, notifVars, closer, jumps,
                   cpVars, ftmsVars, sessVars, manual, codec, shut, wire>>

\* Notifications arriving at any time, their tasks run when the loop gets to
\* them.
SpawnNext ==
    \/ \E d \in SpawnPackets : RxSpawns(d)
    \/ RunNotifyTask
    \/ ClockTick

SpawnSpec == TeleInit /\ [][SpawnNext]_vars

\* ------------------------------------------------------- bytes written

\* _HDR_STRUCT.pack(WFTNP_VERSION, mtype, seq, 0, len(payload)) with "!BBBBH"
\* (wftnp.py:44, 248), followed by the payload.
Frame(t, s, payload) ==
    <<WFTNP_VERSION, t, s, 0, Len(payload) \div 256, Len(payload) % 256>> \o payload

\* self._writer.write(hdr + payload) (wftnp.py:252): one call that appends the
\* whole frame to the writer's buffer.
WrittenHeaderFirst(buf, frame) == buf \o SubSeq(frame, 1, 6)

Written(buf, frame) == buf \o frame

\* The payloads written: none (discover_services) and a short value.
WirePayloads == {<<>>, <<7>>, <<7, 8>>}

\* _request from its call to `await self._writer.drain()` (wftnp.py:244-253):
\* no await in between, so these statements run without another task running.
WrRequest(w, t, payload) ==
    /\ wire.pc[w] \in {"idle", "done", "cancelled"}
    /\ Len(wire.asked) < MaxWrites
    /\ wire' = [out |-> Written(wire.out, Frame(t, NextSeq(wire.sq), payload)),
                pc |-> [wire.pc EXCEPT ![w] = "drain"],
                sq |-> NextSeq(wire.sq),
                asked |-> Append(wire.asked, [t |-> t, payload |-> payload])]
    /\ UNCHANGED <<seq, pending, reqVars, connVars, notifVars, closer, jumps,
                   cpVars, ftmsVars, sessVars, tele, manual, codec, shut, spawn>>

\* drain() returns: the call goes on to `await fut` (wftnp.py:253-255).
WrDrained(w) ==
    /\ wire.pc[w] = "drain"
    /\ wire' = [wire EXCEPT !.pc[w] = "await"]
    /\ UNCHANGED <<seq, pending, reqVars, connVars, notifVars, closer, jumps,
                   cpVars, ftmsVars, sessVars, tele, manual, codec, shut, spawn>>

\* The future is resolved and the call returns (wftnp.py:255-258).
WrReturn(w) ==
    /\ wire.pc[w] = "await"
    /\ wire' = [wire EXCEPT !.pc[w] = "done"]
    /\ UNCHANGED <<seq, pending, reqVars, connVars, notifVars, closer, jumps,
                   cpVars, ftmsVars, sessVars, tele, manual, codec, shut, spawn>>

\* The caller is cancelled; CancelledError is raised at the await it is
\* suspended in (drain() or the future).
WrCancel(w) ==
    /\ wire.pc[w] \in {"drain", "await"}
    /\ wire' = [wire EXCEPT !.pc[w] = "cancelled"]
    /\ UNCHANGED <<seq, pending, reqVars, connVars, notifVars, closer, jumps,
                   cpVars, ftmsVars, sessVars, tele, manual, codec, shut, spawn>>

\* Concurrent requesters on one connection.
WireNext ==
    \/ \E w \in Writers, t \in IssuedTypes, payload \in WirePayloads : WrRequest(w, t, payload)
    \/ \E w \in Writers : WrDrained(w)
    \/ \E w \in Writers : WrReturn(w)
    \/ \E w \in Writers : WrCancel(w)

WireSpec == CpInit /\ [][WireNext]_vars

\* ------------------------------------------------------------- unload

\* async_shutdown (coordinator.py:223-228), called by async_unload_entry
\* without the lock: unsubscribe the periodic check, close the client, clear
\* _connected. A close() that raises leaves _connected as it was.
Shutdown ==
    /\ AfterSetup
    /\ Loaded
    /\ shut' = IF CloseRaises(rxTask) THEN "raised" ELSE "done"
    /\ rxTask' = RxAfterClose(rxTask)
    /\ writer' = WriterAfterClose(rxTask, writer)
    /\ connected' = IF CloseRaises(rxTask) THEN connected ELSE FALSE
    /\ UNCHANGED <<seq, pending, reader, connId, notifyCb, cpUuid,
                   lock, hasControl, poll, cm, acquiredOn>>
    /\ UNCHANGED <<reqVars, cpQueue, cbCount, cbLast, closer, jumps, notShut>>

\* The session of a config entry that may be unloaded at any time.
ShutdownNext ==
    \/ SessionNext
    \/ Shutdown

ShutdownSpec == Init /\ [][ShutdownNext]_vars

\* ------------------------------------------------------- manual connection

\* The connection switch (switch.py:49-61) turns off with async_disconnect and
\* on with async_connect; is_on is `not is_manually_disconnected`.

\* _manual_disconnect after async_disconnect and after async_connect
\* (tests/test_coordinator.py:69-91, 119-141).
ManualAfterDisconnect(m) == TRUE
ManualKept(m) == m

ManualAfterConnect(m) == FALSE

\* async_disconnect, inside the lock: set the flag, clear _connected, close the
\* client (tests/test_coordinator.py:69-91: close awaited once, is_connected
\* false, is_manually_disconnected true).
ManualDisconnect ==
    /\ AfterSetup
    /\ LockFree(lock)
    /\ manual' = ManualAfterDisconnect(manual)
    /\ connected' = FALSE
    /\ rxTask' = RxAfterClose(rxTask)
    /\ writer' = WriterAfterClose(rxTask, writer)
    /\ UNCHANGED <<seq, pending, reader, connId, notifyCb, cpUuid,
                   lock, hasControl, poll, cm, acquiredOn>>
    /\ UNCHANGED <<reqVars, cpQueue, cbCount, cbLast, closer, jumps, notSess>>

\* async_connect is called and asks for the lock.
ManualConnectRun ==
    /\ AfterSetup
    /\ poll.pc = "idle"
    /\ poll' = [pc |-> "lock", mode |-> "manual", out |-> "none",
                failed |-> FALSE, attempts |-> 0, wasManual |-> FALSE]
    /\ UNCHANGED <<seq, pending, rxTask, reader, writer, connId, notifyCb, cpUuid,
                   lock, connected, hasControl, cm, acquiredOn>>
    /\ UNCHANGED sessLeaves

\* async_connect inside the lock: clear the flag, then one _connect_and_init
\* (tests/test_coordinator.py:119-141), which first closes a connected client
\* (coordinator.py:230-234); an exception of that close goes to the except
\* branch like any other.
ManualAcquire ==
    /\ poll.pc = "lock"
    /\ poll.mode = "manual"
    /\ LockFree(lock)
    /\ manual' = ManualAfterConnect(manual)
    /\ IF connected /\ CloseRaises(rxTask)
       THEN /\ rxTask' = rxTask
            /\ writer' = writer
            /\ connected' = connected
            /\ lock' = lock
            /\ poll' = [EndPoll("raised") EXCEPT !.attempts = @ + 1, !.wasManual = manual]
       ELSE /\ rxTask' = IF connected THEN "none" ELSE rxTask
            /\ writer' = IF connected THEN "none" ELSE writer
            /\ connected' = FALSE
            /\ lock' = "manual"
            /\ poll' = [poll EXCEPT !.pc = "connecting", !.attempts = @ + 1,
                                    !.wasManual = manual]
    /\ UNCHANGED <<seq, pending, reader, connId, notifyCb, cpUuid,
                   hasControl, cm, acquiredOn>>
    /\ UNCHANGED <<reqVars, cpQueue, cbCount, cbLast, closer, jumps, notSess>>

\* ------------------------------------------------ parse_indoor_bike_data

\* struct.unpack_from("<H"), ("<h") and the u24 of the distance, at offset i
\* (counted from 0) of the byte sequence v.
U16(v, i) == v[i + 1] + 256 * v[i + 2]
I16(v, i) == IF U16(v, i) >= 32768 THEN U16(v, i) - 65536 ELSE U16(v, i)
U24(v, i) == v[i + 1] + 256 * v[i + 2] + 65536 * v[i + 3]

\* flags & (1 << bit)
FlagSetAlways(flags, bit) == TRUE

FlagSet(flags, bit) == (flags \div (2 ^ bit)) % 2 = 1

\* need(n): i + n <= len(value)
Need(v, i, n) == i + n <= Len(v)

\* The fields in the order of the code: the key, the flag bit (-1: the speed is
\* read whatever the flags say), the size in bytes, signed or not, and the
\* value of one raw unit in hundredths (raw / 100.0, raw / 2.0, float(raw)).
IbdFields ==
    << [name |-> "speed_kmh",        bit |-> -1, size |-> 2, signed |-> FALSE, per |-> 1],
       [name |-> "avg_speed_kmh",    bit |-> 1,  size |-> 2, signed |-> FALSE, per |-> 1],
       [name |-> "cadence_rpm",      bit |-> 2,  size |-> 2, signed |-> FALSE, per |-> 50],
       [name |-> "avg_cadence_rpm",  bit |-> 3,  size |-> 2, signed |-> FALSE, per |-> 50],
       [name |-> "distance_m",       bit |-> 4,  size |-> 3, signed |-> FALSE, per |-> 100],
       [name |-> "resistance_level", bit |-> 5,  size |-> 2, signed |-> TRUE,  per |-> 100],
       [name |-> "power_w",          bit |-> 6,  size |-> 2, signed |-> TRUE,  per |-> 100] >>

\* The raw integer of field f at offset i.
RawAt(f, v, i) ==
    IF f.size = 3 THEN U24(v, i) ELSE IF f.signed THEN I16(v, i) ELSE U16(v, i)

\* The value stored for field f read at offset i, in hundredths.
ValueAt(f, v, i) == RawAt(f, v, i) * f.per

\* `if (flags & (1 << bit))` of field f; the speed has no such condition.
Wanted(flags, f) == f.bit < 0 \/ FlagSet(flags, f.bit)

\* out[key] = value
Put(out, key, value) ==
    [x \in DOMAIN out \cup {key} |-> IF x = key THEN value ELSE out[x]]

\* The chain of `if` statements from field k on, with the offset i and the
\* dict out built so far (wftnp.py:456-497): a field is read and the offset
\* advanced when it is wanted and need(size) holds; otherwise the next `if` is
\* tried with the same offset.
RECURSIVE ParseFields(_, _, _, _, _)
ParseFields(v, flags, k, i, out) ==
    IF k > Len(IbdFields) THEN out
    ELSE LET f == IbdFields[k]
         IN  IF Wanted(flags, f) /\ Need(v, i, f.size)
             THEN ParseFields(v, flags, k + 1, i + f.size, Put(out, f.name, ValueAt(f, v, i)))
             ELSE ParseFields(v, flags, k + 1, i, out)

\* The empty dict.
EmptyDict == [x \in {} |-> 0]

\* parse_indoor_bike_data (wftnp.py:437-497); values in hundredths.
ParseIndoorBikeDataOf(v) ==
    IF Len(v) < 2 THEN EmptyDict ELSE ParseFields(v, U16(v, 0), 1, 2, EmptyDict)

\* The value of the test (tests/test_wftnp_parse.py:10-26): flags
\* (1 << 2) | (1 << 6), speed 1234, cadence 160, power 250.
ExampleIbd == <<68, 0, 210, 4, 160, 0, 250, 0>>

\* Two byte streams to cut values from: one that starts like the example, one
\* of bytes with the high bit set (negative when read as int16).
IbdStream(p, i) ==
    IF p = 1
    THEN IF i + 2 <= Len(ExampleIbd) THEN ExampleIbd[i + 2] ELSE (i * 53) % 256
    ELSE 255 - ((i * 29) % 128)

\* The values parsed: nothing, a single byte, and every flags word with bits
\* 0..6 and bit 8 followed by 0..MaxIbdBody bytes of either stream.
IbdInputs ==
    {<<>>, <<68>>}
    \cup {<<lo, hi>> \o [i \in 1..n |-> IbdStream(p, i)] :
             lo \in 0..127, hi \in {0, 1}, n \in 0..MaxIbdBody, p \in {1, 2}}

\* A notification value arrives and is about to be parsed.
ParseInit ==
    /\ ReadyClient
    /\ \E v \in IbdInputs : codec = [NoCodec EXCEPT !.input = v]

\* on_notify calls parse_indoor_bike_data on the value (coordinator.py:104-105).
ParseIndoorBikeData ==
    /\ codec.fn = "none"
    /\ codec' = [fn |-> "parse_indoor_bike_data", input |-> codec.input,
                 output |-> ParseIndoorBikeDataOf(codec.input)]
    /\ UNCHANGED <<seq, pending, reqVars, connVars, notifVars, closer, jumps,
                   cpVars, ftmsVars, sessVars, tele, manual, shut, wire, spawn>>

ParseNext == ParseIndoorBikeData

ParseSpec == ParseInit /\ [][ParseNext]_vars

\* ------------------------------------------------------------- set_grade

\* The arguments of set_grade are given by their scaled values (wind_mps * 1000,
\* grade_percent * 100, crr * 10000, cw * 100) counted in quarters of a raw unit,
\* on which the float products are exact: 50 is a scaled value of 12.5.

\* clamp (wftnp.py:108-109)
Clamp(x, lo, hi) == IF x < lo THEN lo ELSE IF x > hi THEN hi ELSE x

\* int(round(x)) of a value of q quarters: Python's round goes to the nearest
\* integer and, half way, to the even one.
Round(q) ==
    LET f == q \div 4
        r == q % 4
    IN  IF r < 2 THEN f
        ELSE IF r > 2 THEN f + 1
        ELSE IF f % 2 = 0 THEN f ELSE f + 1

\* struct.pack("<h", n): two bytes, little endian, two's complement.
PackI16(n) == <<(n % 65536) % 256, (n % 65536) \div 256>>

\* The sanity clamps of set_grade, as scaled values in quarters: grade -10..15 %,
\* wind -50..50 m/s, crr 0..0.0255, cw 0..2.55 (wftnp.py:413-416).
GradeClamped(q) == Clamp(q, 4 * (-10 * 100), 4 * (15 * 100))
WindClamped(q) == Clamp(q, 4 * (-50 * 1000), 4 * (50 * 1000))
CrrClamped(q) == Clamp(q, 0, 4 * 255)
CwClamped(q) == Clamp(q, 0, 4 * 255)

\* clamp to int16 / uint8 ranges (wftnp.py:423-427)
SatI16(n) == Clamp(n, -32768, 32767)
SatU8(n) == Clamp(n, 0, 255)

\* The payload set_grade writes (wftnp.py:413-429).
SetGradePayload(a) ==
    <<17>> \o PackI16(SatI16(Round(WindClamped(a.wind))))
           \o PackI16(SatI16(Round(GradeClamped(a.grade))))
           \o <<SatU8(Round(CrrClamped(a.crr))), SatU8(Round(CwClamped(a.cw)))>>

\* The defaults of the keyword arguments: wind_mps 0.0, crr 0.0040, cw 0.510
\* (wftnp.py:392-394), and the grade 3.5 of the documented example.
DefaultGradeArgs == [grade |-> 4 * 350, wind |-> 0, crr |-> 4 * 40, cw |-> 4 * 51]

\* The values within MaxSpread quarters of the anchors as.
Around(as) == {a + d : a \in as, d \in -MaxSpread..MaxSpread}

\* Arguments around zero, around the half-way values 12.5 and -12.5, around
\* the limits of the sanity clamps and of the integer ranges, and beyond.
GradeValues == Around({4 * (-1000), -50, 0, 50, 4 * 350, 4 * 1500})
WindValues == Around({4 * (-50000), 4 * (-32768), -50, 0, 50, 4 * 32767, 4 * 50000})
CrrValues == Around({0, 50, 4 * 40, 4 * 255})
CwValues == Around({0, 50, 4 * 51, 4 * 255})

\* The calls made: one argument varied with the others at their defaults, and
\* all four on or next to a half-way value.
GradeInputs ==
    {[DefaultGradeArgs EXCEPT !.grade = q] : q \in GradeValues}
    \cup {[DefaultGradeArgs EXCEPT !.wind = q] : q \in WindValues}
    \cup {[DefaultGradeArgs EXCEPT !.crr = q] : q \in CrrValues}
    \cup {[DefaultGradeArgs EXCEPT !.cw = q] : q \in CwValues}
    \cup [grade : {-50, 50, 54}, wind : {-50, 46}, crr : {50, 52}, cw : {50, 48}]

\* A set_grade call is about to be made.
GradeInit ==
    /\ ReadyClient
    /\ \E a \in GradeInputs : codec = [NoCodec EXCEPT !.input = a]

\* set_grade builds its payload (the write and the wait for the indication
\* are those of any control-point operation).
SetGrade ==
    /\ codec.fn = "none"
    /\ codec' = [fn |-> "set_grade", input |-> codec.input,
                 output |-> SetGradePayload(codec.input)]
    /\ UNCHANGED <<seq, pending, reqVars, connVars, notifVars, closer, jumps,
                   cpVars, ftmsVars, sessVars, tele, manual, shut, wire, spawn>>

GradeNext == SetGrade

GradeSpec == GradeInit /\ [][GradeNext]_vars

\* The session with its connection switch.
ManualNext ==
    \/ SessionNext
    \/ ManualDisconnect
    \/ ManualConnectRun
    \/ ManualAcquire

ManualSpec == Init /\ [][ManualNext]_vars

\* Bike-data packets of any content arriving at any time.
TeleNext ==
    \/ \E d \in Packets : HandleIndoorBikeData(d)
    \/ ClockTick

TeleSpec == TeleInit /\ [][TeleNext]_vars

\* The idle-trio scenario: idle packets only, at any times up to MaxTrioClock.
TrioNext ==
    \/ \E d \in TrioPackets : TrioPacket(d)
    \/ TrioTick

TrioSpec == TrioInit /\ [][TrioNext]_vars

\* Spec with the progress the event loop guarantees: a coroutine whose awaited
\* future or task is done is resumed. Nothing guarantees that the peer sends a
\* frame, nor that a caller issues, cancels, connects or closes.
FairSpec ==
    /\ Spec
    /\ WF_vars(\E r \in Slots : ReqReturn(r))
    /\ WF_vars(CloseRxDone)
    /\ WF_vars(CloseEnd)

TypeOK ==
    /\ seq \in 0..SeqMask
    /\ nreq \in 0..MaxReq
    /\ rxTask \in {"none", "running", "cancelled"} \cup RxFailedStates
    /\ writer \in {"none", "open", "closing"}
    /\ \A k \in DOMAIN pending : pending[k] \in Slots
    /\ lock \in {"none", "tick", "manual"} \cup Commands
    /\ manual \in BOOLEAN
    /\ connected \in BOOLEAN
    /\ hasControl \in {"unset", "false", "true"}
    /\ acquiredOn \in 0..MaxConn
    /\ tele.now \in 0..MaxClock

\* ========================================================== properties

\* The requests awaiting an answer under type t and sequence s.
AwaitingUnder(t, s) ==
    {r \in Slots : req[r].pc = "awaiting" /\ req[r].mtype = t /\ req[r].seq = s}

\* The awaiting requests whose future changes in this step.
Completed == {r \in Slots : req[r].pc = "awaiting" /\ fut'[r] # fut[r]}

\* What receiving response frame f must do to the requests.
CorrelatedBy(f) ==
    LET key == <<f.mtype, f.seq>>
        live == key \in DOMAIN pending /\ fut[pending[key]].st = "waiting"
                    /\ req[pending[key]].pc = "awaiting"
    IN  /\ req' = req
        /\ Completed \subseteq AwaitingUnder(f.mtype, f.seq)
        /\ IF live
           THEN /\ Completed = {pending[key]}
                /\ fut'[pending[key]] = ResultFuture(f.resp, f.data)
           ELSE Completed = {}
        /\ key \notin DOMAIN pending => fut' = fut /\ pending' = pending

\* C1: a received frame of type t in 1..5 and sequence s completes exactly the
\* request registered under (t, s), with that frame's (response_code, payload),
\* and no other; a frame whose (t, s) has no entry changes no request; the
\* request then returns that payload (code 0) or raises WFTNPError (code not 0).
\* The frames come in any order.
C1_ResponseCorrelation ==
    [][ /\ \A f \in ResponseFrames : RxFrame(f, FALSE) => CorrelatedBy(f)
        /\ \A r \in Slots : ReqReturn(r) =>
              req'[r] = IF fut[r].resp = RespOk THEN DoneRequest("ok", fut[r].data)
                        ELSE DoneRequest("WFTNPError", EmptyPayload) ]_vars

\* C1 witness: two requests in flight, the later one answered first.
C1_Witness ==
    \E r1, r2 \in Slots :
        /\ r1 < r2
        /\ req[r1].pc = "awaiting" /\ fut[r1].st = "waiting"
        /\ req[r2].pc = "awaiting" /\ fut[r2].st = "result"
        /\ fut[r2].data = OnePayload

\* C2: a type-6 frame, whatever its sequence byte (that of a live request
\* included), completes no future and removes no entry of the pending table.
C2_NotificationNotCorrelated ==
    [][ \A f \in NotificationFrames(Payloads), b \in BOOLEAN :
            RxFrame(f, b) => pending' = pending /\ fut' = fut /\ req' = req ]_vars

\* C2 witness: a notification went to the mailbox while the enable-notifications
\* request, whose sequence byte notifications echo, is still waiting in the table.
C2_Witness ==
    /\ Len(cpQueue) > 0
    /\ \E r \in Slots :
          /\ req[r].pc = "awaiting" /\ req[r].mtype = 5 /\ fut[r].st = "waiting"
          /\ <<5, req[r].seq>> \in DOMAIN pending
          /\ pending[<<5, req[r].seq>>] = r

\* C3: _request never registers a key (message_type, sequence) that already has
\* an entry in the pending table, also after the u8 counter wrapped and after
\* earlier requests were abandoned.
C3_NoKeyReuse ==
    [][ \A t \in IssuedTypes :
            Request(t) /\ writer # "none" => <<t, NextSeq(seq)>> \notin DOMAIN pending ]_vars

\* C4: once a request has finished for any reason, its entry is no longer in
\* the pending table.
C4_FinishedEntryRemoved ==
    \A k \in DOMAIN pending : req[pending[k]].pc # "done"

\* C5: every connect() leaves the pending table empty and the counter at 0, so
\* that the first request on the connection carries sequence 1.
C5_ConnectResets ==
    [][ Connect => pending' = <<>> /\ NextSeq(seq') = 1 ]_vars

\* C6: when close() has run, every request that was awaiting its response has
\* completed with a transport-closed error and the pending table is empty.
C6_CloseFailsPending ==
    [][ CloseEnd =>
          /\ pending' = <<>>
          /\ \A r \in Slots : req[r].pc = "awaiting" =>
                req'[r].pc = "done" /\ req'[r].out = "TransportClosed" ]_vars

\* C7: a request awaiting its response when the receive loop has ended (EOF,
\* read error, any termination) eventually ends, instead of waiting forever.
C7_DeadConnectionEndsRequest ==
    \A r \in Slots :
        (RxDead /\ req[r].pc = "awaiting" /\ fut[r].st = "waiting") ~> (req[r].pc = "done")

\* C8: a frame whose version is not 1 is fatal: the receive loop stops (no later
\* frame is processed), the connection is closed and the requests in flight are
\* told.
C8_BadVersionFatal ==
    [][ \A f \in BadVersionFrames : RxFrame(f, FALSE) =>
          /\ rxTask' # "running"
          /\ writer' = "none" /\ reader' = "none"
          /\ \A r \in Slots : req'[r].pc # "awaiting" ]_vars

\* C9: for every received type-6 frame with at least 16 payload bytes the
\* installed callback is invoked exactly once with (characteristic UUID, value),
\* and the value is appended to the control-point mailbox if and only if the UUID
\* equals the cached control-point UUID (never when none is cached, never for
\* another characteristic).
C9_NotificationRouting ==
    [][ \A f \in NotificationFrames(Payloads), b \in BOOLEAN :
          RxFrame(f, b) /\ f.data.len >= UuidLen =>
            /\ notifyCb # "none" =>
                  cbCount' = cbCount + 1 /\ cbLast' = <<f.data.head, f.data.tail>>
            /\ notifyCb = "none" => cbCount' = cbCount
            /\ cpQueue' = IF cpUuid = FTMS_CONTROL_POINT_UUID
                              /\ f.data.head = FTMS_CONTROL_POINT_UUID
                           THEN Append(cpQueue, f.data.tail)
                           ELSE cpQueue ]_vars

\* C9 witness: with the control point cached, the callback has run twice, last
\* for Indoor Bike Data, and only one value went to the mailbox.
C9_Witness ==
    /\ cpUuid = FTMS_CONTROL_POINT_UUID
    /\ notifyCb # "none"
    /\ cbCount = 2
    /\ cbLast[1] = INDOOR_BIKE_DATA_UUID
    /\ Len(cpQueue) = 1

\* C10: an exception raised by the notification callback does not terminate the
\* receive loop.
C10_CallbackExceptionSwallowed ==
    [][ \A f \in NotificationFrames(Payloads) :
          RxFrame(f, TRUE) => rxTask' = "running" ]_vars

\* C11: the outcome of a control-point wait for opcode op is decided by the
\* oldest mailbox entry of at least 3 bytes with byte0 = 0x80 and byte1 = op:
\* success iff its result byte is 0x01, otherwise a control-point error with
\* that result code. Any other entry is discarded and decides nothing. Nothing
\* but such an entry or the timeout ends the wait.
C11_ControlPointOutcome ==
    [][ /\ CpGet =>
          LET pkt == Head(cpQueue)
              decides == Len(pkt) >= 3 /\ pkt[1] = 128 /\ pkt[2] = cpWait.op
          IN  /\ cpQueue' = Tail(cpQueue)
              /\ decides /\ pkt[3] = 1 =>
                    cpWait'.pc = "done" /\ cpWait'.out = "ok"
              /\ decides /\ pkt[3] # 1 =>
                    /\ cpWait'.pc = "done"
                    /\ cpWait'.out = "FTMSControlPointError"
                    /\ cpWait'.code = pkt[3]
              /\ ~decides => cpWait'.pc = "waiting" /\ cpWait'.out = "none"
        /\ cpWait.pc = "waiting" /\ cpWait'.pc = "done" =>
              CpGet \/ cpWait'.out = "TimeoutError" ]_vars

\* C11 witness: set_target_power's wait threw an entry away and then failed with
\* CONTROL_NOT_PERMITTED (80 05 05).
C11_Witness ==
    /\ cpWait.pc = "done"
    /\ cpWait.op = OpSetTargetPower
    /\ cpWait.skipped
    /\ cpWait.out = "FTMSControlPointError"
    /\ cpWait.code = CpNotPermitted

\* C12: a control-point wait never lasts longer than one timeout period after
\* it began.
C12_WaitBoundedByTimeout ==
    cpWait.pc = "waiting" => now - cpWait.began <= CP_TIMEOUT

\* The requests a call of ftms_init issues when every one is answered well.
FtmsOrder(i) ==
    <<"discover_services", "discover_characteristics", "enable_cp">>
    \o (IF i.sub /\ i.hasIbd THEN <<"enable_ibd">> ELSE <<>>)
    \o (IF i.st /\ i.hasSt THEN <<"enable_status">> ELSE <<>>)

IssuedSet == {issued[k] : k \in 1..Len(issued)}

\* C13: ftms_init issues discover_services, discover_characteristics,
\* enable_notifications(control point), then enable_notifications(Indoor Bike
\* Data) only if that subscription is asked for and the characteristic was
\* discovered (and last of all enable_notifications(Status), under the same two
\* conditions for Status); the control-point UUID is cached by the time its
\* notifications are enabled; without the FTMS service or without the control
\* point it fails and has issued no enable_notifications.
C13_FtmsInitOrder ==
    /\ Len(issued) <= Len(FtmsOrder(ini))
    /\ issued = SubSeq(FtmsOrder(ini), 1, Len(issued))
    /\ "enable_ibd" \in IssuedSet => ini.sub /\ ini.hasIbd
    /\ "enable_cp" \in IssuedSet => cpUuid = FTMS_CONTROL_POINT_UUID
    /\ ini.pc = "done" /\ ini.out = "ok" => issued = FtmsOrder(ini)
    /\ ini.pc = "done" /\ ini.out \in {"no_ftms_service", "no_control_point"} =>
          IssuedSet \cap {"enable_cp", "enable_ibd", "enable_status"} = {}
    /\ ini.pc \notin {"idle", "done"} => issued # <<>> /\ issued[Len(issued)] = ini.pc

\* C13 witness: ftms_init has returned after enabling the control point and
\* Indoor Bike Data.
C13_Witness ==
    /\ ini.pc = "done" /\ ini.out = "ok"
    /\ ini.sub /\ ini.hasIbd
    /\ Len(issued) = 4

\* A run of _connect_and_init ends in this step.
ConnectAndInitEnds == poll.pc \in {"connecting", "initialising"} /\ poll'.pc = "idle"

\* C14: every successful connect/init, initial or reconnect, ends with
\* connected = true and has_control = false; every failed one ends with
\* connected = false and the transport closed (no writer, no receive task), and
\* its caller sees the failure.
C14_ConnectInitPostcondition ==
    [][ ConnectAndInitEnds =>
          IF poll'.out = "ok"
          THEN connected' /\ hasControl' = "false"
          ELSE /\ ~connected'
               /\ writer' = "none"
               /\ rxTask' = "none"
               /\ poll'.out \in {"setup_failed", "UpdateFailed"} ]_vars

\* _ensure_control starts in this step: the command has entered the lock.
EnsureControlStarts(c) == cm[c].pc = "lock" /\ cm'[c].pc # "lock"

\* C15: _ensure_control with has_control true issues nothing and changes
\* nothing; otherwise it issues request_control, then start_training once
\* request_control has succeeded, and has_control becomes true only when
\* start_training has succeeded after it; when either fails has_control stays
\* false and the caller gets an error.
C15_EnsureControl ==
    [][ \A c \in Commands :
        /\ EnsureControlStarts(c) =>
              /\ hasControl' = hasControl
              /\ IF hasControl = "true" THEN cm'[c].pc \notin {"rc", "st"}
                                        ELSE cm'[c].pc = "rc"
        /\ (cm[c].pc = "rc" /\ cm'[c].pc # "rc") =>
              /\ hasControl' = hasControl
              /\ cm'[c].pc = "st" \/ (cm'[c].pc = "done" /\ cm'[c].out # "ok")
        /\ (cm[c].pc = "st" /\ cm'[c].pc # "st") =>
              hasControl' = (IF cm'[c].out \in {"none", "ok"} THEN "true" ELSE hasControl)
        /\ (cm[c].pc \in {"rc", "st"} /\ cm'[c].pc = "done" /\ cm'[c].out # "ok") =>
              hasControl' = "false" ]_vars

\* The command writes its mutating opcode (set_target_power) in this step.
WritesMutatingOpcode == \E c \in Commands : cm[c].pc # "op" /\ cm'[c].pc = "op" /\ Wired

\* The command writes request_control or start_or_resume in this step.
WritesControlOpcode ==
    \E c \in Commands : cm'[c].pc \in {"rc", "st"} /\ cm'[c].pc # cm[c].pc /\ Wired

\* C16: a facade command writes a mutating control-point opcode on a connection
\* only when request_control and start_or_resume have succeeded on that same
\* connection, and once they have, no command writes either of them on that
\* connection again.
C16_LazyControl ==
    [][ /\ WritesMutatingOpcode => acquiredOn' = connId
        /\ WritesControlOpcode => acquiredOn # connId ]_vars

\* The tick is inside `async with self._lock`, at one of its awaits.
TickInBody ==
    poll.mode # "setup" /\ poll.pc \in {"probe", "connecting", "initialising"}

\* Command c is inside `async with self._lock`, at one of its awaits.
CommandInBody(c) == cm[c].pc \in {"rc", "st", "op"}

\* C17: at any time at most one of the facade commands and the periodic
\* probe / reconnect is inside its body, and it is the one holding the lock, so
\* the requests of one never interleave with those of another.
C17_SessionMutex ==
    /\ Cardinality({c \in Commands : CommandInBody(c)}) + (IF TickInBody THEN 1 ELSE 0) <= 1
    /\ TickInBody => lock = "tick"
    /\ \A c \in Commands : CommandInBody(c) => lock = c

\* C17 witness: one command is between request_control and start_training
\* while the other command and a tick wait for the lock.
C17_Witness ==
    /\ poll.pc = "lock"
    /\ \E c, d \in Commands : c # d /\ cm[c].pc = "st" /\ cm[d].pc = "lock"

\* The probe of this tick fails (times out or raises) in this step.
ProbeFails == poll.pc = "probe" /\ poll'.pc # "probe" /\ poll'.failed

\* A tick whose probe failed ends in this step.
FailedTickEnds == poll.failed /\ poll.pc # "idle" /\ poll'.pc = "idle"

\* C18: when the probe of a tick times out or fails, whatever made it fail,
\* that tick sets connected to false, closes the transport (no writer, no
\* receive task) and attempts exactly one reconnect; when the reconnect fails
\* the tick ends with UpdateFailed and connected = false.
C18_ProbeFailureHandling ==
    [][ /\ ProbeFails =>
              /\ ~connected'
              /\ writer' = "none"
              /\ rxTask' = "none"
              /\ poll'.pc = "connecting"
        /\ FailedTickEnds =>
              /\ poll'.attempts = 1
              /\ poll'.out = "ok" \/ (poll'.out = "UpdateFailed" /\ ~connected') ]_vars

\* Packet d shows no activity: none of speed, cadence and power is above 0.
Idle(d) ==
    \A k \in {"speed_kmh", "cadence_rpm", "power_w"} : k \in DOMAIN d => d[k] <= 0

\* At least sleep_timeout > 0 has elapsed since the last activity.
SleepDue ==
    /\ tele.sleep_timeout > 0
    /\ tele.now - tele.last_activity_monotonic >= tele.sleep_timeout

\* C19: an idle packet arriving when sleep_timeout > 0 and at least
\* sleep_timeout has elapsed since last_activity_monotonic changes no metric of
\* the snapshot and not last_publish_monotonic; it publishes at most a bare
\* last_seen, and that only when at least last_seen_interval has elapsed since
\* last_seen_publish_monotonic, so that two bare last_seen publishes are never
\* closer than last_seen_interval.
C19_SleepPackets ==
    [][ \A d \in Packets : (HandleIndoorBikeData(d) /\ Idle(d) /\ SleepDue) =>
          /\ tele'.data = tele.data
          /\ tele'.last_publish_monotonic = tele.last_publish_monotonic
          /\ tele'.published \in {"none", "last_seen"}
          /\ tele'.published = "last_seen" =>
                /\ tele.now - tele.last_seen_publish_monotonic >= tele.last_seen_interval
                /\ tele.seen_at >= 0 => tele.now - tele.seen_at >= tele.last_seen_interval ]_vars

\* C19 witness: after metrics were published, a sleep packet has published a
\* bare last_seen.
C19_Witness ==
    /\ SleepDue
    /\ tele.published = "last_seen"
    /\ tele.seen_at = tele.now
    /\ tele.data # <<>>
    /\ tele.last_publish_monotonic > 0

\* C20: handling a packet sets last_activity_monotonic to the arrival time when
\* the packet has activity and leaves it unchanged otherwise, on every path;
\* nothing else changes it, so once sleep_timeout has elapsed an idle packet
\* is not published as active.
C20_IdleKeepsActivityTimer ==
    [][ /\ \A d \in Packets : HandleIndoorBikeData(d) =>
              /\ tele'.last_activity_monotonic =
                     IF Idle(d) THEN tele.last_activity_monotonic ELSE tele.now
              /\ (Idle(d) /\ SleepDue) => tele'.published # "active"
        /\ ClockTick => tele'.last_activity_monotonic = tele.last_activity_monotonic ]_vars

\* C20 witness: an idle packet went down the active path (published at this
\* time) and the activity timer still shows an earlier time.
C20_Witness ==
    /\ tele.published = "active"
    /\ tele.last_publish_monotonic = tele.now
    /\ tele.last_activity_monotonic < tele.now
    /\ tele.sleep_timeout > 0

\* C21: an idle packet arriving before sleep_timeout has elapsed since the
\* last activity goes down the active path: with throttling off it is merged
\* and published and both publish timestamps become its arrival time. With
\* options 10 / 1 / 0 and last_activity = 0, idle packets at t = 5, 9, 12 end
\* with last_activity = 0, last_publish = 9 and last_seen_publish = 12.
C21_IdleBeforeSleepTimeout ==
    /\ [][ \A d \in TrioPackets :
              (TrioPacket(d) /\ ~SleepDue /\ tele.update_throttle = 0) =>
                 /\ tele'.published = "active"
                 /\ \A k \in DOMAIN d : tele'.data[k] = d[k]
                 /\ tele'.last_publish_monotonic = tele.now
                 /\ tele'.last_seen_publish_monotonic = tele.now ]_vars
    /\ [](tele.arrivals = <<5, 9, 12>> =>
              /\ tele.last_activity_monotonic = 0
              /\ tele.last_publish_monotonic = 9
              /\ tele.last_seen_publish_monotonic = 12)

\* C21 witness: the three idle packets have arrived at t = 5, 9 and 12.
C21_Witness == tele.arrivals = <<5, 9, 12>>

\* Packet d is throttled: it is not a sleep packet and arrives less than
\* update_throttle > 0 after last_publish_monotonic.
ThrottleDue(d) ==
    /\ ~(Idle(d) /\ SleepDue)
    /\ tele.update_throttle > 0
    /\ tele.now - tele.last_publish_monotonic < tele.update_throttle

\* C22: a throttled packet publishes nothing and changes neither publish
\* timestamp, and its metrics are merged into the coordinator's snapshot all
\* the same.
C22_ThrottleKeepsData ==
    [][ \A d \in Packets : (HandleIndoorBikeData(d) /\ ThrottleDue(d)) =>
          /\ tele'.published = "none"
          /\ tele'.last_publish_monotonic = tele.last_publish_monotonic
          /\ tele'.last_seen_publish_monotonic = tele.last_seen_publish_monotonic
          /\ DOMAIN d \subseteq DOMAIN tele'.data
          /\ \A k \in DOMAIN d : tele'.data[k] = d[k] ]_vars

\* C23: last_publish_monotonic never decreases, and with update_throttle > 0
\* two consecutive active-path publishes are at least update_throttle apart.
C23_PublishesOrdered ==
    /\ [][tele'.last_publish_monotonic >= tele.last_publish_monotonic]_vars
    /\ []((tele.update_throttle > 0 /\ tele.gap >= 0) => tele.gap >= tele.update_throttle)

\* C23 witness: with throttling on, a second active publish has happened.
C23_Witness == tele.update_throttle > 0 /\ tele.gap >= 0 /\ tele.active_at = tele.now

\* The periodic tick enters the lock in this step.
TickEnters == poll.mode # "manual" /\ poll.pc = "lock" /\ poll'.pc # "lock"

\* C24: while manually_disconnected is true a tick neither probes nor
\* reconnects: it issues no transport request, leaves connected = false and
\* returns the current snapshot.
C24_ManualTickNoOp ==
    [][ (TickEnters /\ manual) =>
          /\ poll'.pc = "idle"
          /\ poll'.out = "ok"
          /\ ~connected'
          /\ UNCHANGED <<rxTask, reader, writer, connId>> ]_vars

\* C25: after a manual disconnect and until a manual connect, every facade
\* command fails with a ManuallyDisconnected error as soon as it has the lock
\* and writes nothing to the transport.
C25_ManualCommandsFail ==
    [][ \A c \in Commands :
          (EnsureControlStarts(c) /\ manual) =>
              /\ cm'[c].pc = "done"
              /\ cm'[c].out = "ManuallyDisconnected"
              /\ ~WritesControlOpcode
              /\ ~WritesMutatingOpcode ]_vars

\* A manual connect ends in this step.
ManualConnectEnds == poll.mode = "manual" /\ poll.pc # "idle" /\ poll'.pc = "idle"

\* C26: a manual connect, also after a manual disconnect, runs the connect/init
\* sequence exactly once and leaves manually_disconnected = false, and a tick
\* that finds the flag false probes or reconnects.
C26_ManualConnect ==
    /\ [][ ManualConnectEnds => (poll'.attempts = 1 /\ ~manual') ]_vars
    /\ []( (poll.mode = "manual" /\ poll.pc \in {"connecting", "initialising"}) =>
             (poll.attempts = 1 /\ ~manual) )
    /\ [][ (TickEnters /\ ~manual) => poll'.pc \in {"probe", "connecting"} ]_vars

\* A manual connect after a manual disconnect has brought the session back.
C26_Witness ==
    /\ poll.mode = "manual"
    /\ poll.pc = "idle"
    /\ poll.out = "ok"
    /\ poll.wasManual
    /\ connected
    /\ ~manual

\* stop_training has its indication, with this result code.
StopAnswered(code) ==
    cpWait.pc = "done" /\ cpWait.op = OpStopTraining /\ cpWait.code = code

\* C27: the facade's stop_training completes without failure when the
\* indication for opcode 0x08 carries OP_CODE_NOT_SUPPORTED, and fails on
\* another result that is not SUCCESS.
C27_StopTrainingTolerant ==
    /\ StopAnswered(CpNotSupported) => AsyncStopTraining(cpWait) = "ok"
    /\ StopAnswered(CpNotPermitted) => AsyncStopTraining(cpWait) # "ok"

\* The layout the decoder is to follow: after the flags word the speed, read
\* whatever the flags say, then the optional fields in this order, each with
\* its flag bit, width, signedness and scale (in hundredths per raw unit).
ClaimedFields ==
    << [name |-> "speed_kmh",        bit |-> -1, size |-> 2, signed |-> FALSE, per |-> 1],
       [name |-> "avg_speed_kmh",    bit |-> 1,  size |-> 2, signed |-> FALSE, per |-> 1],
       [name |-> "cadence_rpm",      bit |-> 2,  size |-> 2, signed |-> FALSE, per |-> 50],
       [name |-> "avg_cadence_rpm",  bit |-> 3,  size |-> 2, signed |-> FALSE, per |-> 50],
       [name |-> "distance_m",       bit |-> 4,  size |-> 3, signed |-> FALSE, per |-> 100],
       [name |-> "resistance_level", bit |-> 5,  size |-> 2, signed |-> TRUE,  per |-> 100],
       [name |-> "power_w",          bit |-> 6,  size |-> 2, signed |-> TRUE,  per |-> 100] >>

\* The flags word of a value: u16, little endian.
FlagsOf(v) == v[1] + 256 * v[2]

\* Whether bit b of the flags word n is set.
BitOf(n, b) == (n \div (2 ^ b)) % 2 = 1

\* Field k is asked for by the flags of v.
Asked(v, k) == ClaimedFields[k].bit < 0 \/ BitOf(FlagsOf(v), ClaimedFields[k].bit)

\* The bytes taken by the fields before field k that are in the result out.
RECURSIVE ConsumedBefore(_, _)
ConsumedBefore(out, k) ==
    IF k <= 1 THEN 0
    ELSE ConsumedBefore(out, k - 1)
         + (IF ClaimedFields[k - 1].name \in DOMAIN out THEN ClaimedFields[k - 1].size ELSE 0)

\* The bytes a value needs after its flags word to hold every field asked for.
RECURSIVE AskedBytes(_, _)
AskedBytes(v, k) ==
    IF k = 0 THEN 0
    ELSE AskedBytes(v, k - 1) + (IF Asked(v, k) THEN ClaimedFields[k].size ELSE 0)

\* parse_indoor_bike_data has been applied to a value with a flags word.
Parsed == codec.fn = "parse_indoor_bike_data" /\ Len(codec.input) >= 2

\* C28: after the u16 LE flags word the speed is read unconditionally, then
\* average speed (bit 1, u16), cadence (bit 2, u16), average cadence (bit 3,
\* u16), distance (bit 4, u24), resistance (bit 5, i16), power (bit 6, i16),
\* each only when its bit is set and each from the offset right after the
\* previously consumed field; a field whose bit is clear is absent; a value
\* long enough gives every field asked for; and 44 00 d2 04 a0 00 fa 00 gives
\* exactly speed 12.34, cadence 80.0, power 250.
C28_IbdDecoding ==
    Parsed =>
      LET v == codec.input
          out == codec.output
      IN  /\ DOMAIN out \subseteq {ClaimedFields[k].name : k \in 1..Len(ClaimedFields)}
          /\ \A k \in 1..Len(ClaimedFields) :
               LET f == ClaimedFields[k]
                   at == 2 + ConsumedBefore(out, k)
               IN  /\ ~Asked(v, k) => f.name \notin DOMAIN out
                   /\ f.name \in DOMAIN out =>
                        /\ at + f.size <= Len(v)
                        /\ out[f.name] = ValueAt(f, v, at)
                   /\ (Asked(v, k) /\ Len(v) >= 2 + AskedBytes(v, Len(ClaimedFields))) =>
                        f.name \in DOMAIN out
          /\ v = ExampleIbd =>
               out = [speed_kmh |-> 1234, cadence_rpm |-> 8000, power_w |-> 25000]

\* The value of the example has been parsed.
C28_Witness ==
    /\ codec.fn = "parse_indoor_bike_data"
    /\ codec.input = ExampleIbd
    /\ DOMAIN codec.output = {"speed_kmh", "cadence_rpm", "power_w"}

\* C29: when a field that is asked for does not have its bytes, parsing stops:
\* no later field is in the result; a value shorter than 2 bytes gives the
\* empty map.
C29_TruncationStops ==
    codec.fn = "parse_indoor_bike_data" =>
      LET v == codec.input
          out == codec.output
      IN  IF Len(v) < 2
          THEN out = EmptyDict
          ELSE \A k \in 1..Len(ClaimedFields) :
                 (Asked(v, k) /\ ClaimedFields[k].name \notin DOMAIN out) =>
                    \A j \in (k + 1)..Len(ClaimedFields) :
                        ClaimedFields[j].name \notin DOMAIN out

\* Nearest integer of q quarters, a half-way value going away from zero.
NearestAway(q) ==
    CHOOSE n \in ((q \div 4) - 1)..((q \div 4) + 1) :
        /\ 4 * n - q \in -2..2
        /\ (4 * n - q = 2 => q > 0)
        /\ (4 * n - q = -2 => q < 0)

\* The value q held to lo..hi raw units, rounded that way, then held to the
\* integer range min..max.
Encoded(q, lo, hi, min, max) ==
    LET c == IF q < 4 * lo THEN 4 * lo ELSE IF q > 4 * hi THEN 4 * hi ELSE q
        n == NearestAway(c)
    IN  IF n < min THEN min ELSE IF n > max THEN max ELSE n

\* The two bytes of the int16 n, low byte first.
LittleEndian16(n) ==
    LET u == IF n < 0 THEN n + 65536 ELSE n IN <<u % 256, u \div 256>>

\* C30: set_grade writes 0x11, then int16 LE round(wind * 1000), int16 LE
\* round(grade * 100), u8 round(crr * 10000), u8 round(cw * 100), after clamping
\* grade to -10..15, wind to -50..50, crr to 0..0.0255 and cw to 0..2.55, with
\* rounding to nearest and a half-way value away from zero (12.5 gives 13,
\* -12.5 gives -13); set_grade(3.5, 0, 0.0040, 0.510) writes 11 00 00 5E 01 28 33.
C30_SetGradeEncoding ==
    codec.fn = "set_grade" =>
      LET a == codec.input
      IN  /\ codec.output =
               <<17>> \o LittleEndian16(Encoded(a.wind, -50000, 50000, -32768, 32767))
                      \o LittleEndian16(Encoded(a.grade, -1000, 1500, -32768, 32767))
                      \o <<Encoded(a.crr, 0, 255, 0, 255), Encoded(a.cw, 0, 255, 0, 255)>>
          /\ a = DefaultGradeArgs => codec.output = <<17, 0, 0, 94, 1, 40, 51>>

\* C31: once async_shutdown has completed, the periodic check is unsubscribed,
\* the transport is closed and connected is false, and it stays so, also when
\* a tick or a reconnect was in progress when shutdown ran.
C31_ShutdownFinal ==
    /\ [](shut = "done" => (~connected /\ writer = "none" /\ rxTask = "none"))
    /\ [][shut = "done" => ~(poll.pc = "idle" /\ poll'.pc # "idle")]_vars

\* The transport is fully closed: no receive task, no reader, no writer.
FullyClosed == rxTask = "none" /\ reader = "none" /\ writer = "none"

\* C32: whenever close() finishes, the receive loop task is gone, the writer
\* closed and reader and writer cleared: when a close() that had to wait
\* resumes and ends, and when close() ends without waiting (nothing to close,
\* or a receive loop that has already terminated).
C32_CloseAlwaysCloses ==
    /\ [][ (closer # "idle" /\ closer' = "idle") => FullyClosed' ]_vars
    /\ [](~ENABLED (CloseBegin /\ closer' = "idle" /\ ~FullyClosed'))

\* The frames a byte stream consists of, read from its start: 6 bytes of
\* header, then as many bytes as the header's length field says; bytes that
\* make no complete frame are given as CutFrame.
CutFrame == [ver |-> -1, t |-> -1, s |-> -1, resp |-> -1, payload |-> <<>>]

RECURSIVE FramesOf(_)
FramesOf(bytes) ==
    IF bytes = <<>> THEN <<>>
    ELSE IF Len(bytes) < 6 \/ Len(bytes) < 6 + bytes[5] * 256 + bytes[6]
    THEN <<CutFrame>>
    ELSE LET n == 6 + bytes[5] * 256 + bytes[6]
         IN  <<[ver |-> bytes[1], t |-> bytes[2], s |-> bytes[3], resp |-> bytes[4],
                payload |-> SubSeq(bytes, 7, n)]>>
             \o FramesOf(SubSeq(bytes, n + 1, Len(bytes)))

\* C33: whatever the interleaving of the requesters and whichever of them is
\* cancelled, the bytes written are the complete frames of the requests made,
\* one after the other in the order of the calls: no frame is cut short and no
\* two frames are mixed.
C33_WritesSerialized ==
    FramesOf(wire.out) =
        [i \in 1..Len(wire.asked) |->
            [ver |-> WFTNP_VERSION, t |-> wire.asked[i].t, s |-> i % 256, resp |-> 0,
             payload |-> wire.asked[i].payload]]

\* Two requests were in flight together and one of them was cancelled while
\* the other was still waiting for drain().
C33_Witness ==
    /\ wire.pc["w1"] = "cancelled"
    /\ wire.pc["w2"] = "drain"
    /\ Len(wire.asked) >= 2
    /\ wire.asked[1].payload # <<>>

\* C34: the coordinator handles the Indoor Bike Data packets in the order in
\* which the receive loop got their frames: what it has handled so far is the
\* beginning of what was received, and the tasks still queued carry the rest.
C34_NotificationOrder ==
    /\ spawn.ingested = SubSeq(spawn.received, 1, Len(spawn.ingested))
    /\ spawn.ingested \o spawn.ready = spawn.received

\* Three notifications came in while no task had run; two of the tasks have
\* run since and the third, with a different packet, is still queued.
C34_Witness ==
    /\ Len(spawn.received) = 3
    /\ Len(spawn.ingested) = 2
    /\ Len(spawn.ready) = 1
    /\ spawn.received[1] # spawn.received[2]
    /\ spawn.received[2] # spawn.received[3]
    /\ tele.data # <<>>

\* A facade command surfaces a failure of a control-point wait or of a
\* transport request to its caller.
CommandFails(c) ==
    /\ cm[c].pc \in {"rc", "st", "op"}
    /\ cm'[c].pc = "done"
    /\ cm'[c].out \in {"TimeoutError", "ConnectionResetError"}

\* C35: when a facade command fails because its control-point indication timed
\* out or a transport request failed, the transport has been closed by the
\* time the error reaches the caller.
C35_FailureClosesTransport ==
    [][\A c \in Commands : CommandFails(c) => (writer' = "none" /\ rxTask' = "none")]_vars

\* A slow trainer: its control-point indications arrive only while no
\* operation waits for one, so every mailbox entry an operation finds was
\* pushed before that operation's write. Operations are issued on an open
\* connection; between them the owner may close the client and connect again.
LateIndication(f) ==
    /\ cpWait.pc # "waiting"
    /\ RxFrame(f, FALSE)

MailboxNext ==
    \/ \E f \in NotificationFrames(CpPayloads) : LateIndication(f)
    \/ \E op \in CpOpcodes : writer = "open" /\ rxTask = "running" /\ CpBegin(op)
    \/ CpGet
    \/ CpTimeout
    \/ Tick
    \/ cpWait.pc # "waiting" /\ CloseBegin
    \/ CloseRxDone
    \/ CloseEnd
    \/ Connect

MailboxSpec == CpInit /\ [][MailboxNext]_vars

\* C36: an indication pushed into the mailbox before an operation's write never
\* decides that operation (with a trainer whose indications all come late, no
\* wait ends other than by its timeout), and the mailbox is empty when close()
\* has finished.
C36_OwnIndicationDecides ==
    /\ [][(cpWait.pc = "waiting" /\ cpWait'.pc = "done") => cpWait'.out = "TimeoutError"]_vars
    /\ [][(closer # "idle" /\ closer' = "idle") => cpQueue' = <<>>]_vars

\* C37: between operations (nobody holds the session lock) has_control is
\* defined, and it is true only while connected is true.
C37_ControlImpliesConnected ==
    lock = "none" => (hasControl \in {"true", "false"} /\ (hasControl = "true" => connected))

\* C38: a new connection is opened only when no earlier one is still open: the
\* writer of the previous connection has been closed and cleared by then, so
\* the session never has two open connections.
C38_OneConnection ==
    [][connId' # connId => writer = "none"]_vars

\* C39: for packets arriving at non-decreasing times, the time of the latest
\* publish of any kind is never before the time of the latest active publish:
\* last_seen_publish_monotonic >= last_publish_monotonic.
C39_PublishTimesOrdered ==
    tele.last_seen_publish_monotonic >= tele.last_publish_monotonic

\* C39 witness: after an active publish the trainer went to sleep, and a
\* sleep-path publish has moved last_seen_publish_monotonic past it.
C39_Witness ==
    /\ tele.published = "last_seen"
    /\ tele.active_at > 0
    /\ tele.last_publish_monotonic = tele.active_at
    /\ tele.last_seen_publish_monotonic > tele.last_publish_monotonic

\* ------------------------------------------------------ background recovery

\* A trainer that accepts connections and answers FTMS initialize: connect()
\* and ftms_init() fail only during the initial connect of async_setup.
DeviceConnects(ok) ==
    /\ ok \/ poll.mode = "setup"
    /\ CiConnected(ok)

DeviceInitialises(res) ==
    /\ res = "ok" \/ poll.mode = "setup"
    /\ CiInitDone(res)

\* The established connection is lost, or a probe goes unanswered, while the
\* bound on connections leaves room for the reconnect.
ConnectionLost(how) ==
    /\ connected
    /\ connId < MaxConn
    /\ RxDies(how)

ProbeResumes(res) ==
    /\ res = "ok" \/ connId < MaxConn
    /\ ProbeDone(res)

\* A facade command's awaited client call resumes.
CommandResumes ==
    \E c \in Commands, res \in FtmsResults :
        CmdRcDone(c, res) \/ CmdStDone(c, res) \/ CmdOpDone(c, res)

RecoveryNext ==
    \/ SetupRun
    \/ TickRun
    \/ TickAcquire
    \/ \E res \in {"ok", "error", "timeout"} : ProbeResumes(res)
    \/ \E ok \in BOOLEAN : DeviceConnects(ok)
    \/ \E res \in {"ok", "early_error", "late_error", "late_error_eof"} : DeviceInitialises(res)
    \/ \E c \in Commands, kind \in CommandKinds : CmdCall(c, kind)
    \/ \E c \in Commands : CmdAcquire(c)
    \/ CommandResumes
    \/ \E how \in {"failed_eof", "failed_io"} : ConnectionLost(how)

\* The progress the code's scheduling guarantees. The timer keeps firing
\* (coordinator.py:114-117); asyncio.Lock hands the lock to its waiters in
\* turn; wait_for ends the probe within 3 s; the trainer answers connect() and
\* ftms_init(). A client call of a facade command is resumed while the
\* receive loop runs (by the response and the indication, or by the 2 s
\* timeout); once the loop has ended nothing completes a pending response
\* future (wftnp.py:240-242, 255), so that call need not resume.
RecoverySpec ==
    /\ Init
    /\ [][RecoveryNext]_vars
    /\ WF_vars(SetupRun)
    /\ WF_vars(TickRun)
    /\ SF_vars(TickAcquire)
    /\ SF_vars(\E c \in Commands : CmdAcquire(c))
    /\ WF_vars(\E res \in {"ok", "error", "timeout"} : ProbeResumes(res))
    /\ WF_vars(\E ok \in BOOLEAN : DeviceConnects(ok))
    /\ WF_vars(\E res \in {"ok", "early_error", "late_error", "late_error_eof"} :
                  DeviceInitialises(res))
    /\ WF_vars(rxTask = "running" /\ CommandResumes)

\* The session is connected over a transport whose receive loop runs.
Recovered == connected /\ rxTask = "running"

\* C40: with fair ticks and a trainer that accepts connections and answers
\* FTMS initialize, a session that is not connected (the initial connect
\* failed, or the connection was lost) is eventually connected again; the
\* periodic check can run once setup has ended, whatever its outcome; and a
\* connection is opened only by the coordinator's connect/init.
C40_BackgroundRecovery ==
    /\ ~Recovered ~> Recovered
    /\ [](poll.mode # "setup" /\ poll.pc = "idle" => ENABLED TickRun)
    /\ [][connId' # connId => poll.pc = "connecting"]_vars

====
